---- MODULE Spec2Model ----
(***************************************************************************)
(* Entity simulation and AI engine of the hunter game (GameLogic           *)
(* component): the per-frame update loop, the input handlers and the two   *)
(* setTimeout callbacks (level transition, respawn).                       *)
(*                                                                         *)
(* Abstractions, stated once:                                              *)
(*  - Space.  Coordinates are the program's pixel coordinates and every    *)
(*    geometric predicate (checkCollision, distance thresholds, clamps) is *)
(*    computed on them as in the code.  Velocity integration is replaced   *)
(*    by station hopping: a mobile entity that the code steers toward a    *)
(*    goal either stays or arrives at the goal in one tick (the choice is  *)
(*    an input of the tick), and creatures, pickups and the companion end  *)
(*    their fall on the floor within the tick.  The hunter's vertical      *)
(*    motion (jump, gravity, platforms, floor) is integrated as in the     *)
(*    code, in hundredths of a pixel.                                      *)
(*  - Math.random() is a choice input of the tick.                         *)
(*  - Enemy health is kept in half points (HP units per point) because the *)
(*    companion bites for 0.5.                                             *)
(*  - Particles, floating texts, rain drops and sounds are cosmetic and    *)
(*    are left out.                                                        *)
(*  - Time between frames is not fixed: any number of frames may run       *)
(*    while a timeout is pending.  There is no clock: a pending timeout    *)
(*    may fire unless one scheduled earlier with a delay not longer than   *)
(*    its own is still pending.                                            *)
(***************************************************************************)
EXTENDS Integers, Sequences, FiniteSets, TLC

VARIABLES state, entities, input, engine, timers, obs

vars == <<state, entities, input, engine, timers, obs>>

---------------------------------------------------------------------------
(* Engine configuration                                                    *)

JUMP_FORCE == 0 - 12
JOYSTICK_RADIUS == 50
(* GRAVITY = 0.5 and the kick of a bite (vy = -5), in hundredths of a      *)
(* pixel per frame.                                                        *)
Gravity == 50
BiteKick == 500
TRAP_COOLDOWN_FRAMES == 120
DASH_COOLDOWN_FRAMES == 60
CANVAS_WIDTH == 960
CANVAS_HEIGHT == 540
FloorMargin == 32
FloorY == CANVAS_HEIGHT - FloorMargin
MaxWaves == 5
StartLives == 3
PlayerMaxHealth == 100
WolfDamage == 10
CrowDamage == 15
MeatHeal == 20
DogHeal == 5
HitInvulnFrames == 60
DashInvulnFrames == 15
NetStunFrames == 180
ArrowStunFrames == 10
ArrowLifeTime == 120
PowerUpFrames == 600
KillReward == 100
CrowReward == 150
MeatReward == 50
EnemyCap == 5
CrowCap == 3
CrowSpawnFrames == 300
CrowHealth == 2
FireRateNormal == 20
FireRatePowered == 10
BiteFrames == 10
HealFrames == 60
WhistleAggroFrames == 300
FlushAggroFrames == 60
FleeFrames == 300
TransitionDelayMs == 3000
RespawnDelayMs == 500

(* Units of enemy health per health point (a bite is half a point).        *)
HP == 2

---------------------------------------------------------------------------
(* Bounds of the model                                                     *)

(* The frame counter runs freely while the menu is shown; the explored     *)
(* window of frames is FirstFrame .. FirstFrame + FrameWindow.             *)
FirstFrame == 148
FrameWindow == 6
MaxArrows == 2
MaxTimers == 2
NumBushes == 2
GeomMax == 2

LastFrame == FirstFrame + FrameWindow

---------------------------------------------------------------------------
(* Values                                                                  *)

Null == [nil |-> TRUE]

Abs(n) == IF n < 0 THEN 0 - n ELSE n
Sign(n) == IF n < 0 THEN 0 - 1 ELSE IF n > 0 THEN 1 ELSE 0
Min(a, b) == IF a < b THEN a ELSE b
Sq(n) == n * n

(* Math.sqrt(dx*dx + dy*dy) < r, for r >= 0, compared on squares.          *)
DistLT(ax, ay, bx, by, r) == Sq(ax - bx) + Sq(ay - by) < Sq(r)
DistGT(ax, ay, bx, by, r) == Sq(ax - bx) + Sq(ay - by) > Sq(r)
DistSq(ax, ay, bx, by) == Sq(ax - bx) + Sq(ay - by)

(* Array.prototype.filter(e => !e.markedForDeletion)                       *)
Unmarked(e) == ~e.markedForDeletion
Purge(s) == SelectSeq(s, Unmarked)

SeqIds(s) == {s[i].id : i \in 1..Len(s)}

(* Index of the first element satisfying P, or 0 (Array.prototype.find).   *)
FindFirst(s, P(_)) ==
  IF \E i \in 1..Len(s) : P(s[i])
  THEN CHOOSE i \in 1..Len(s) : P(s[i]) /\ \A j \in 1..(i - 1) : ~P(s[j])
  ELSE 0

(* checkCollision counting a shared vertical edge as an overlap.           *)
mutant_checkCollision(r1, r2) ==
  /\ r1.x <= r2.x + r2.width
  /\ r1.x + r1.width > r2.x
  /\ r1.y < r2.y + r2.height
  /\ r1.y + r1.height > r2.y

checkCollision(r1, r2) ==
  /\ r1.x < r2.x + r2.width
  /\ r1.x + r1.width > r2.x
  /\ r1.y < r2.y + r2.height
  /\ r1.y + r1.height > r2.y

isTopDownLevel(level) == level = 3

---------------------------------------------------------------------------
(* Level layout (generateLevel)                                            *)

Platform(px, py, w) == [x |-> px, y |-> py, width |-> w, height |-> 20]

PlatformsOf(level) ==
  CASE level = 3 -> <<>>
    [] level = 1 -> <<Platform(200, 400, 200), Platform(500, 300, 200),
                      Platform(800, 200, 100)>>
    [] level = 2 -> <<Platform(100, 400, 100), Platform(300, 350, 400),
                      Platform(800, 400, 100)>>
    [] level = 4 -> <<Platform(100, 400, 100), Platform(300, 300, 100),
                      Platform(500, 200, 100), Platform(700, 280, 80),
                      Platform(840, 210, 120)>>
    [] OTHER     -> <<Platform(100, 350, 200), Platform(660, 350, 200),
                      Platform(380, 200, 200)>>

DoorXOf(level) == IF level % 2 = 0 THEN 50 ELSE CANVAS_WIDTH - 80
DoorYOf(level) ==
  IF isTopDownLevel(level) THEN 50
  ELSE IF level = 4 THEN 140 ELSE CANVAS_HEIGHT - 32 - 64

NewDoor(level) ==
  [x |-> DoorXOf(level), y |-> DoorYOf(level), width |-> 40, height |-> 64,
   isOpen |-> FALSE]

(* Math.random() positions of the bushes, 200 <= x < 860, 100 <= y < 440.  *)
BushSpot(i) == [x |-> 200 + 200 * ((i - 1) % 4), y |-> 100 + 100 * ((i - 1) % 4)]

NewBush(i) ==
  [id |-> i, x |-> BushSpot(i).x, y |-> BushSpot(i).y, width |-> 40,
   height |-> 30, hasRabbit |-> TRUE, shakeTimer |-> 0,
   markedForDeletion |-> FALSE]

NewRabbit(i) ==
  [id |-> NumBushes + i, x |-> BushSpot(i).x + 10, y |-> BushSpot(i).y + 10,
   width |-> 16, height |-> 16, vx |-> 0, vy |-> 0, state |-> "HIDDEN",
   isHidden |-> TRUE, fleeTimer |-> 0, health |-> 1,
   markedForDeletion |-> FALSE]

spawnBushes == [i \in 1..NumBushes |-> NewBush(i)]
spawnRabbits == [i \in 1..NumBushes |-> NewRabbit(i)]

enemiesRequiredOf(level) ==
  IF level = 3 THEN 5 ELSE IF level = 1 THEN 4 ELSE 4 + (level * 2)

NewPlayer(level) ==
  [x |-> 50,
   y |-> IF isTopDownLevel(level) THEN CANVAS_HEIGHT \div 2 ELSE CANVAS_HEIGHT - 100,
   width |-> 24, height |-> 48, facingRight |-> TRUE,
   health |-> PlayerMaxHealth, maxHealth |-> PlayerMaxHealth,
   aimAngle |-> <<1, 0>>, isAiming |-> FALSE, trapCooldown |-> 0,
   powerUpTimer |-> 0, dashTimer |-> 0, isDashing |-> FALSE,
   invulnerableTimer |-> 0, vx |-> 0, vy |-> 0, ysub |-> 0,
   grounded |-> FALSE]

NewDog ==
  [id |-> 777, x |-> 100, y |-> CANVAS_HEIGHT \div 2, width |-> 32,
   height |-> 24, vx |-> 0, vy |-> 0, facingRight |-> TRUE,
   state |-> "IDLE", target |-> Null, aggroTimer |-> 0, healTimer |-> 0]

(* startLevel's repositioning that leaves the companion's mood as it was.  *)
mutant_RepositionedDog(dog) ==
  [dog EXCEPT !.x = 20, !.y = CANVAS_HEIGHT - 100, !.vx = 0, !.vy = 0]

RepositionedDog(dog) ==
  [dog EXCEPT !.x = 20, !.y = CANVAS_HEIGHT - 100, !.vx = 0, !.vy = 0,
              !.state = "IDLE", !.aggroTimer = 0, !.target = Null]

startLevel(w, level) ==
  [w EXCEPT
     !.state.level = level,
     !.state.enemiesKilled = 0,
     !.state.enemiesRequired = enemiesRequiredOf(level),
     !.state.isRaining = (level = 2 \/ level = 5),
     !.entities.enemies = <<>>, !.entities.crows = <<>>,
     !.entities.arrows = <<>>, !.entities.traps = <<>>,
     !.entities.meats = <<>>, !.entities.powerups = <<>>,
     !.entities.platforms = PlatformsOf(level),
     !.entities.bushes = IF level = 3 THEN spawnBushes ELSE <<>>,
     !.entities.rabbits = IF level = 3 THEN spawnRabbits ELSE <<>>,
     !.entities.door = NewDoor(level),
     !.entities.dog =
        IF w.entities.dog # Null THEN RepositionedDog(w.entities.dog)
        ELSE IF level = 3 THEN NewDog ELSE Null,
     !.entities.player = NewPlayer(level),
     !.obs.startLevels = @ + 1]


initGame(w) ==
  startLevel(
    [w EXCEPT
       !.state = [status |-> "PLAYING", level |-> 1, score |-> 0,
                  lives |-> StartLives, enemiesKilled |-> 0,
                  enemiesRequired |-> 4, isRaining |-> FALSE,
                  lightningTimer |-> 0],
       !.entities.dog = Null,
       !.timers = [i \in 1..Len(w.timers) |-> [w.timers[i] EXCEPT !.stale = TRUE]]],
    1)

---------------------------------------------------------------------------
(* Observation of the last step (not program state): which handler ran     *)
(* and which of the calls the properties speak about it made; and, kept    *)
(* from step to step, streak: for how many ticks in a row the companion    *)
(* has found the conditions of healing met.                                *)

NoObs(act) ==
  [act |-> act, kills |-> <<>>, deaths |-> 0, nextLevels |-> 0,
   startLevels |-> 0, picks |-> <<>>, crowKills |-> <<>>, fired |-> 0,
   caught |-> <<>>, delivered |-> 0, eaten |-> 0, stale |-> FALSE,
   reHits |-> <<>>, thrown |-> 0, streak |-> 0]

World == [state |-> state, entities |-> entities, input |-> input,
          engine |-> engine, timers |-> timers, obs |-> obs]

Becomes(w) ==
  /\ state' = w.state
  /\ entities' = w.entities
  /\ input' = w.input
  /\ engine' = w.engine
  /\ timers' = w.timers
  /\ obs' = w.obs

Began(act) == [World EXCEPT !.obs = [NoObs(act) EXCEPT !.streak = obs.streak]]

---------------------------------------------------------------------------
(* Timeouts                                                                *)

(* setTimeout(callback, ms): the pending callbacks in the order they were  *)
(* scheduled.                                                              *)
setTimeout(w, kind, ms) ==
  [w EXCEPT !.timers = Append(@, [kind |-> kind, ms |-> ms, stale |-> FALSE])]

(* nextLevel *)
(* nextLevel taking the last level for one more to pass.                   *)
mutant_nextLevelPastLast(w) ==
  LET w1 == [w EXCEPT !.obs.nextLevels = @ + 1] IN
  IF w.state.level > MaxWaves
  THEN [w1 EXCEPT !.state.status = "VICTORY"]
  ELSE setTimeout([w1 EXCEPT !.state.status = "LEVEL_TRANSITION"],
                  "transition", TransitionDelayMs)

(* nextLevel without the change of status.                                 *)
mutant_nextLevel(w) ==
  LET w1 == [w EXCEPT !.obs.nextLevels = @ + 1] IN
  IF w.state.level >= MaxWaves
  THEN [w1 EXCEPT !.state.status = "VICTORY"]
  ELSE setTimeout(w1, "transition", TransitionDelayMs)

nextLevel(w) ==
  LET w1 == [w EXCEPT !.obs.nextLevels = @ + 1] IN
  IF w.state.level >= MaxWaves
  THEN [w1 EXCEPT !.state.status = "VICTORY"]
  ELSE setTimeout([w1 EXCEPT !.state.status = "LEVEL_TRANSITION"],
                  "transition", TransitionDelayMs)

setGameOver(w) == [w EXCEPT !.state.status = "GAME_OVER"]

(* handlePlayerDeath that still restarts the level at zero lives.          *)
mutant_handlePlayerDeath(w) ==
  LET w1 == [w EXCEPT !.state.lives = @ - 1, !.obs.deaths = @ + 1] IN
  IF w1.state.lives >= 0
  THEN setTimeout(w1, "respawn", RespawnDelayMs)
  ELSE setGameOver(w1)

handlePlayerDeath(w) ==
  LET w1 == [w EXCEPT !.state.lives = @ - 1, !.obs.deaths = @ + 1] IN
  IF w1.state.lives > 0
  THEN setTimeout(w1, "respawn", RespawnDelayMs)
  ELSE setGameOver(w1)

(* The callback of nextLevel's setTimeout.                                 *)
transitionCallback(w) ==
  [startLevel(w, w.state.level + 1) EXCEPT !.state.status = "PLAYING"]

(* The respawn callback without its check of the status.                   *)
mutant_respawnCallback(w) == startLevel(w, w.state.level)

(* The callback of handlePlayerDeath's setTimeout.                         *)
respawnCallback(w) ==
  IF w.state.status = "PLAYING" THEN startLevel(w, w.state.level) ELSE w

---------------------------------------------------------------------------
(* update: input resolution                                                *)

(* Math.atan2(y, x) kept as the signs of cosine and sine; atan2(0, 0) = 0. *)
Atan2(y, x) == IF x = 0 /\ y = 0 THEN <<1, 0>> ELSE <<Sign(x), Sign(y)>>

(* Math.abs(angle) < Math.PI / 2 *)
FacesRight(angle) == angle[1] > 0

KeyDx(keys) ==
  IF "KeyD" \in keys \/ "ArrowRight" \in keys THEN 1
  ELSE IF "KeyA" \in keys \/ "ArrowLeft" \in keys THEN 0 - 1 ELSE 0

KeyDy(keys) ==
  IF "KeyS" \in keys \/ "ArrowDown" \in keys THEN 1
  ELSE IF "KeyW" \in keys \/ "ArrowUp" \in keys THEN 0 - 1 ELSE 0

(* Lines 421-471: the command set of this frame.                           *)
Command(w) ==
  LET keys == w.input.keys
      t == w.input.touch
      ls == t.leftStick
      topDown == isTopDownLevel(w.state.level)
  IN [dx |-> IF ls.active /\ Abs(ls.x) > 10 THEN Sign(ls.x) ELSE KeyDx(keys),
      dy |-> IF ls.active /\ topDown /\ Abs(ls.y) > 10 THEN Sign(ls.y)
             ELSE KeyDy(keys),
      jump |-> \/ "Space" \in keys \/ "ArrowUp" \in keys
               \/ (ls.active /\ ~topDown /\ ls.y < 0 - 30),
      throwNet |-> "KeyT" \in keys \/ t.trapBtnPressed,
      whistle |-> "KeyR" \in keys \/ t.whistleBtnPressed,
      dash |-> "ShiftLeft" \in keys \/ t.dashBtnPressed,
      shootCommand |-> t.rightStick.active \/ w.input.mouse.leftDown]

(* Lines 439-471: aim angle, aiming flag, one-shot touch buttons.          *)
ResolveAim(w) ==
  LET m == w.input.mouse
      rs == w.input.touch.rightStick
      p == w.entities.player
      a1 == IF m.x # 0 \/ (m.y # 0 /\ ~rs.active)
            THEN Atan2(m.y - (p.y + 15), m.x - (p.x + 12)) ELSE p.aimAngle
      a2 == IF rs.active THEN Atan2(rs.y, rs.x) ELSE a1
  IN [w EXCEPT !.entities.player.aimAngle = a2,
               !.entities.player.isAiming = IF rs.active THEN TRUE ELSE @,
               !.input.touch.trapBtnPressed = FALSE,
               !.input.touch.whistleBtnPressed = FALSE,
               !.input.touch.dashBtnPressed = FALSE]

---------------------------------------------------------------------------
(* Player physics                                                          *)

Station(sx, sy) == [x |-> sx, y |-> sy]

PlayerGroundY == FloorY - 48

(* Places the player can stand: start, mid field, the gate, and on level 3 *)
(* the rabbits' spots.                                                     *)
PlayerStations(level) ==
  IF isTopDownLevel(level)
  THEN {Station(50, CANVAS_HEIGHT \div 2), Station(DoorXOf(3), DoorYOf(3))}
       \cup {Station(BushSpot(i).x + 10, BushSpot(i).y + 10) : i \in 1..NumBushes}
  ELSE {Station(50, PlayerGroundY), Station(400, PlayerGroundY),
        Station(CANVAS_WIDTH - 80, PlayerGroundY)}
       \cup (IF level = 4 THEN {Station(DoorXOf(4), DoorYOf(4) + 10)} ELSE {})

(* 0.85 * v on hundredths of a pixel per frame.                            *)
Decay(v) == Sign(v) * ((Abs(v) * 85) \div 100)

ClampX(x, width) ==
  IF x < 0 THEN 0 ELSE IF x > CANVAS_WIDTH - width THEN CANVAS_WIDTH - width ELSE x

ClampY(y, height) ==
  IF y < 0 THEN 0 ELSE IF y > CANVAS_HEIGHT - height THEN CANVAS_HEIGHT - height ELSE y

(* Lines 552-553: the cooldowns of the platformer hunter.                  *)
CoolDown(p) ==
  [p EXCEPT !.dashTimer = IF @ > 0 THEN @ - 1 ELSE @,
            !.invulnerableTimer = IF @ > 0 THEN @ - 1 ELSE @]

(* Lines 555-563: a dash begins.                                           *)
StartDash(p, dx, dash) ==
  IF dash /\ p.dashTimer <= 0
  THEN [p EXCEPT !.isDashing = TRUE,
                 !.dashTimer = DASH_COOLDOWN_FRAMES,
                 !.invulnerableTimer = DashInvulnFrames,
                 !.vx = 1500 * (IF dx # 0 THEN dx
                                ELSE IF p.facingRight THEN 1 ELSE 0 - 1)]
  ELSE p

(* Lines 566-573 and 583: the dash decays or the keys steer; the hunter    *)
(* stays or arrives at the place on the ground the station `to` marks, if  *)
(* it lies that way.                                                       *)
MovePlatformer(p, level, dx, to) ==
  LET dir == IF p.isDashing THEN Sign(p.vx) ELSE dx
      over == Abs(Decay(p.vx)) < 500
      hop == /\ to \in PlayerStations(level)
             /\ to.x # p.x /\ Sign(to.x - p.x) = dir
  IN [p EXCEPT !.vx = IF p.isDashing THEN (IF over THEN 0 ELSE Decay(p.vx)) ELSE @,
               !.isDashing = @ /\ ~over,
               !.x = IF hop THEN to.x ELSE @]

(* Jump taking off from anywhere, grounded or not.                         *)
mutant_Jump(p, jump) ==
  IF jump THEN [p EXCEPT !.vy = JUMP_FORCE * 100, !.grounded = FALSE] ELSE p

(* Lines 575-580: the jump impulse; vy in hundredths of a pixel per frame. *)
Jump(p, jump) ==
  IF jump /\ p.grounded
  THEN [p EXCEPT !.vy = JUMP_FORCE * 100, !.grounded = FALSE] ELSE p

(* Lines 582 and 584: gravity and the vertical move; the height is         *)
(* y + ysub / 100.                                                         *)
Fall(p) ==
  [p EXCEPT !.vy = @ + Gravity,
            !.y = (p.y * 100 + p.ysub + p.vy + Gravity) \div 100,
            !.ysub = (p.y * 100 + p.ysub + p.vy + Gravity) % 100]

(* The body of the forEach of checkPlatformCollisions (lines 891-901).     *)
Land(e, pl) ==
  IF /\ e.x < pl.x + pl.width
     /\ e.x + e.width > pl.x
     /\ (e.y + e.height) * 100 + e.ysub > pl.y * 100
     /\ (e.y + e.height) * 100 + e.ysub < (pl.y + pl.height + 10) * 100
     /\ e.vy >= 0
  THEN [e EXCEPT !.grounded = TRUE, !.vy = 0, !.y = pl.y - e.height, !.ysub = 0]
  ELSE e

RECURSIVE LandLoop(_, _, _)
LandLoop(e, platforms, k) ==
  IF k > Len(platforms) THEN e
  ELSE LandLoop(Land(e, platforms[k]), platforms, k + 1)

(* Lines 888-903.                                                          *)
checkPlatformCollisions(e, platforms) ==
  LandLoop([e EXCEPT !.grounded = FALSE], platforms, 1)

(* Lines 585 and 589-598: facing, the floor and the side walls.            *)
SettlePlatformer(p) ==
  IF (p.y + p.height) * 100 + p.ysub > FloorY * 100
  THEN [p EXCEPT !.facingRight = FacesRight(p.aimAngle),
                 !.y = FloorY - p.height, !.ysub = 0, !.vy = 0,
                 !.grounded = TRUE,
                 !.x = ClampX(p.x, p.width)]
  ELSE [p EXCEPT !.facingRight = FacesRight(p.aimAngle),
                 !.x = ClampX(p.x, p.width)]

updatePlatformerPhysics(w, dx, jump, dash, to) ==
  [w EXCEPT !.entities.player =
     SettlePlatformer(checkPlatformCollisions(
       Fall(Jump(MovePlatformer(StartDash(CoolDown(@), dx, dash),
                                w.state.level, dx, to), jump)),
       w.entities.platforms))]

(* Lines 515-523: the dash timer and the start of a dash.                  *)
StartDashRPG(p, dx, dy, dash) ==
  IF dash /\ p.dashTimer <= 1 /\ (dx # 0 \/ dy # 0)
  THEN [p EXCEPT !.isDashing = TRUE,
                 !.dashTimer = DASH_COOLDOWN_FRAMES,
                 !.vx = dx * 1500, !.vy = dy * 1500]
  ELSE [p EXCEPT !.dashTimer = IF @ > 0 THEN @ - 1 ELSE @]

(* Lines 525-538: the dash decays or the keys steer; the hunter stays or   *)
(* arrives at the station `to` lying that way.                             *)
MoveRPG(p, level, dx, dy, to) ==
  LET dirx == IF p.isDashing THEN Sign(p.vx) ELSE dx
      diry == IF p.isDashing THEN Sign(p.vy) ELSE dy
      over == Abs(Decay(p.vx)) < 350 /\ Abs(Decay(p.vy)) < 350
      hop == /\ to \in PlayerStations(level)
             /\ (dirx # 0 \/ diry # 0)
             /\ Sign(to.x - p.x) = dirx
             /\ Sign(to.y - p.y) = diry
  IN [p EXCEPT !.vx = IF p.isDashing THEN (IF over THEN 0 ELSE Decay(p.vx)) ELSE @,
               !.vy = IF p.isDashing THEN (IF over THEN 0 ELSE Decay(p.vy)) ELSE @,
               !.isDashing = @ /\ ~over,
               !.x = IF hop THEN to.x ELSE @,
               !.y = IF hop THEN to.y ELSE @]

(* Lines 540-546: facing and the walls.                                    *)
SettleRPG(p, usesAim, dx) ==
  [p EXCEPT !.facingRight = IF usesAim THEN FacesRight(p.aimAngle)
                            ELSE IF dx # 0 THEN dx > 0 ELSE @,
            !.x = ClampX(p.x, p.width),
            !.y = ClampY(p.y, p.height)]

updateRPGPhysics(w, dx, dy, dash, to) ==
  [w EXCEPT !.entities.player =
     SettleRPG(MoveRPG(StartDashRPG(@, dx, dy, dash), w.state.level, dx, dy, to),
               w.input.touch.rightStick.active \/ w.input.mouse.x # 0, dx)]

---------------------------------------------------------------------------
(* Entity identity and references                                          *)

(* A fresh object identity (id: Math.random()): the least number not in    *)
(* use in the list nor referenced by the companion.                        *)
FreshId(w, kind, list) ==
  LET dog == w.entities.dog
      held == IF dog # Null /\ dog.target # Null /\ dog.target.kind = kind
              THEN {dog.target.id} ELSE {}
      used == SeqIds(list) \cup held
  IN CHOOSE n \in 1..(Cardinality(used) + 1) : n \notin used

Ref(kind, id) == [kind |-> kind, id |-> id]

IndexOfId(list, id) == FindFirst(list, LAMBDA e : e.id = id)

(* The object a reference points at.  An object removed from its list      *)
(* stays alive while the companion refers to it: entities.detached keeps   *)
(* it as it was when it left the list.                                     *)
Deref(w, t) ==
  LET list == CASE t.kind = "enemy" -> w.entities.enemies
                [] t.kind = "rabbit" -> w.entities.rabbits
                [] t.kind = "bush" -> w.entities.bushes
                [] OTHER -> <<>>
      i == IndexOfId(list, t.id)
  IN IF t.kind = "player" THEN w.entities.player
     ELSE IF i # 0 THEN list[i] ELSE w.entities.detached

InWorld(w, t) ==
  CASE t.kind = "enemy" -> t.id \in SeqIds(w.entities.enemies)
    [] t.kind = "rabbit" -> t.id \in SeqIds(w.entities.rabbits)
    [] t.kind = "bush" -> t.id \in SeqIds(w.entities.bushes)
    [] OTHER -> TRUE

(* enemies = enemies.filter(e => !e.markedForDeletion), keeping alive the  *)
(* object the companion still refers to.                                   *)
PurgeEnemies(w) ==
  LET dog == w.entities.dog
      es == w.entities.enemies
      i == IF dog # Null /\ dog.target # Null /\ dog.target.kind = "enemy"
           THEN IndexOfId(es, dog.target.id) ELSE 0
  IN [w EXCEPT !.entities.enemies = Purge(es),
               !.entities.detached =
                  IF i # 0 /\ es[i].markedForDeletion THEN es[i] ELSE @]

---------------------------------------------------------------------------
(* Player actions                                                          *)

fireArrow(w) ==
  LET p == w.entities.player
      aimed == p.isAiming \/ w.input.mouse.leftDown
               \/ w.input.touch.rightStick.active
      dir == IF aimed THEN p.aimAngle
             ELSE IF p.facingRight THEN <<1, 0>> ELSE <<0 - 1, 0>>
  IN [w EXCEPT
        !.entities.arrows =
           Append(@, [id |-> FreshId(w, "arrow", w.entities.arrows),
                      x |-> p.x + p.width \div 2, y |-> p.y + p.height \div 2,
                      width |-> 24, height |-> 6, dir |-> dir,
                      lifeTime |-> ArrowLifeTime,
                      markedForDeletion |-> FALSE]),
        !.obs.fired = @ + 1]

fireNet(w) ==
  LET p == w.entities.player
      dir == IF p.isAiming THEN p.aimAngle
             ELSE IF p.facingRight THEN <<1, 0 - 1>> ELSE <<0 - 1, 0 - 1>>
  IN [w EXCEPT
        !.obs.thrown = @ + 1,
        !.entities.traps =
           Append(@, [id |-> FreshId(w, "trap", w.entities.traps),
                      x |-> p.x + p.width \div 2, y |-> p.y + p.height \div 2,
                      width |-> 16, height |-> 16, dir |-> dir,
                      state |-> "FLYING", markedForDeletion |-> FALSE])]

---------------------------------------------------------------------------
(* Hostile creatures                                                       *)

Tiers == {"SMALL", "MEDIUM", "LARGE"}
TierWidth(t) == CASE t = "SMALL" -> 36 [] t = "MEDIUM" -> 44 [] OTHER -> 56
TierHeight(t) == CASE t = "SMALL" -> 24 [] t = "MEDIUM" -> 28 [] OTHER -> 36
TierHealth(t) == CASE t = "SMALL" -> 2 [] t = "MEDIUM" -> 4 [] OTHER -> 8

SpawnSides == {0 - 50, CANVAS_WIDTH + 50}

(* 60 * (3 - Math.min(2, level * 0.5)) *)
SpawnPeriod(level) == 30 * (6 - Min(4, level))

NewEnemy(w, tier, side) ==
  [id |-> FreshId(w, "enemy", w.entities.enemies), tier |-> tier,
   x |-> side, y |-> 0, width |-> TierWidth(tier), height |-> TierHeight(tier),
   vx |-> 0, health |-> TierHealth(tier) * HP,
   maxHealth |-> TierHealth(tier) * HP, stunTimer |-> 0,
   markedForDeletion |-> FALSE]

NewMeat(w, mx, my, value) ==
  [id |-> FreshId(w, "meat", w.entities.meats), x |-> mx, y |-> my,
   width |-> 16, height |-> 16, value |-> value, markedForDeletion |-> FALSE]

NewPowerUp(w, mx, my) ==
  [id |-> FreshId(w, "powerup", w.entities.powerups), x |-> mx, y |-> my,
   width |-> 16, height |-> 16, timer |-> PowerUpFrames,
   markedForDeletion |-> FALSE]

(* killEnemy(enemies[i]); c.meat and c.pup are the two Math.random() draws *)
killEnemy(w, i, c) ==
  LET e == w.entities.enemies[i]
      w1 == [w EXCEPT !.entities.enemies[i].markedForDeletion = TRUE,
                      !.state.enemiesKilled = @ + 1,
                      !.state.score = @ + KillReward,
                      !.obs.kills = Append(@, e.id)]
      w2 == IF c.meat
            THEN [w1 EXCEPT !.entities.meats = Append(@, NewMeat(w1, e.x, e.y, 20))]
            ELSE w1
  IN IF c.pup
     THEN [w2 EXCEPT !.entities.powerups = Append(@, NewPowerUp(w2, e.x, e.y))]
     ELSE w2

(* Lines 962-966 and 988-991: a blow to the hunter.                        *)
Hurt(w, damage) ==
  IF w.entities.player.health - damage <= 0
  THEN handlePlayerDeath(
         [w EXCEPT !.entities.player.health = @ - damage,
                   !.entities.player.invulnerableTimer = HitInvulnFrames])
  ELSE [w EXCEPT !.entities.player.health = @ - damage,
                 !.entities.player.invulnerableTimer = HitInvulnFrames]

(* EnemySteer leaving the speed of a stunned creature as it was.           *)
mutant_EnemySteer(e, p) ==
  IF e.stunTimer > 0 THEN [e EXCEPT !.stunTimer = @ - 1]
  ELSE IF DistLT(p.x, p.y, e.x, e.y, 400) THEN [e EXCEPT !.vx = Sign(p.x - e.x)]
  ELSE e

(* Lines 944-958: stunned, or steering at a hunter nearer than 400.        *)
EnemySteer(e, p) ==
  IF e.stunTimer > 0 THEN [e EXCEPT !.stunTimer = @ - 1, !.vx = 0]
  ELSE IF DistLT(p.x, p.y, e.x, e.y, 400) THEN [e EXCEPT !.vx = Sign(p.x - e.x)]
  ELSE e

(* Lines 960-961: the floor, and the advance: the enemy stays or arrives   *)
(* at the hunter it runs at.                                               *)
EnemyMove(e, p, level, go) ==
  [e EXCEPT !.y = IF isTopDownLevel(level) THEN @ ELSE FloorY - e.height,
            !.x = IF e.vx # 0 /\ go /\ Sign(p.x - e.x) = e.vx THEN p.x ELSE @]

(* Lines 962-966.                                                          *)
EnemyBite(w, i) ==
  IF /\ checkCollision(w.entities.player, w.entities.enemies[i])
     /\ w.entities.player.invulnerableTimer <= 0
     /\ w.entities.enemies[i].stunTimer <= 0
  THEN Hurt([w EXCEPT !.entities.player.vy = 0 - BiteKick,
                      !.obs.reHits =
                        IF w.entities.enemies[i].markedForDeletion
                        THEN Append(@, [by |-> "enemy", on |-> "player"])
                        ELSE @], WolfDamage)
  ELSE w

(* One iteration of the forEach of updateEnemies (lines 943-967).          *)
EnemyStep(w, i, c) ==
  EnemyBite([w EXCEPT !.entities.enemies[i] =
               EnemyMove(EnemySteer(@, w.entities.player), w.entities.player,
                         w.state.level, i \in c.emove)], i)

RECURSIVE EnemyLoop(_, _, _)
EnemyLoop(w, i, c) ==
  IF i > Len(w.entities.enemies) THEN w
  ELSE EnemyLoop(EnemyStep(w, i, c), i + 1, c)

(* Lines 932-941.                                                          *)
(* A spawn that does not count the creatures.                              *)
mutant_SpawnEnemy(w, c) ==
  IF /\ w.engine.frameCount % SpawnPeriod(w.state.level) = 0
     /\ w.state.level # 3
  THEN [w EXCEPT !.entities.enemies = Append(@, NewEnemy(w, c.tier, c.side))]
  ELSE w

SpawnEnemy(w, c) ==
  IF /\ w.engine.frameCount % SpawnPeriod(w.state.level) = 0
     /\ Len(w.entities.enemies) < EnemyCap
     /\ w.state.level # 3
  THEN [w EXCEPT !.entities.enemies = Append(@, NewEnemy(w, c.tier, c.side))]
  ELSE w

updateEnemies(w, c) == PurgeEnemies(EnemyLoop(SpawnEnemy(w, c), 1, c))

---------------------------------------------------------------------------
(* Crows                                                                   *)

NewCrow(w, side, vx) ==
  [id |-> FreshId(w, "crow", w.entities.crows), state |-> "FLY",
   x |-> side, y |-> 50, width |-> 24, height |-> 24, vx |-> vx, vy |-> 0,
   health |-> CrowHealth, markedForDeletion |-> FALSE]

(* Lines 977-987: the crow stays or advances to where its flight leads.    *)
CrowFly(k, p, go) ==
  CASE k.state = "FLY" ->
         IF Abs((IF go THEN p.x ELSE k.x) - p.x) < 100 /\ k.y < p.y
         THEN [k EXCEPT !.state = "DIVE", !.x = IF go THEN p.x ELSE @,
                        !.vx = Sign(p.x - (IF go THEN p.x ELSE k.x)),
                        !.vy = Sign(p.y - k.y)]
         ELSE [k EXCEPT !.x = IF go THEN p.x ELSE @]
    [] k.state = "DIVE" ->
         IF ~go THEN k
         ELSE IF k.y < p.y THEN [k EXCEPT !.x = p.x, !.y = p.y]
         ELSE [k EXCEPT !.y = CANVAS_HEIGHT - 49]
    [] OTHER -> IF go THEN [k EXCEPT !.y = 100] ELSE k

(* The turns of the flight without the end of the dive.                    *)
mutant_CrowTurn(k, p) ==
  CASE k.state = "RETURN" /\ k.y <= 100 ->
         [k EXCEPT !.state = "FLY", !.vy = 0, !.vx = IF @ > 0 THEN 3 ELSE 0 - 3]
    [] OTHER -> k

(* Lines 982 and 985: the turns of the flight.                             *)
CrowTurn(k, p) ==
  CASE k.state = "DIVE" /\ (k.y > CANVAS_HEIGHT - 50 \/ k.y > p.y + 100) ->
         [k EXCEPT !.state = "RETURN", !.vy = 0 - 4]
    [] k.state = "RETURN" /\ k.y <= 100 ->
         [k EXCEPT !.state = "FLY", !.vy = 0, !.vx = IF @ > 0 THEN 3 ELSE 0 - 3]
    [] OTHER -> k

(* Lines 988-991.                                                          *)
CrowPeck(w, i) ==
  IF checkCollision(w.entities.crows[i], w.entities.player)
     /\ w.entities.player.invulnerableTimer <= 0
  THEN Hurt([w EXCEPT !.obs.reHits =
                        IF w.entities.crows[i].markedForDeletion
                        THEN Append(@, [by |-> "crow", on |-> "player"])
                        ELSE @], CrowDamage)
  ELSE w

(* One iteration of the forEach of updateCrows (lines 977-992).            *)
CrowStep(w, i, c) ==
  CrowPeck([w EXCEPT !.entities.crows[i] =
              CrowTurn(CrowFly(@, w.entities.player, i \in c.cmove),
                       w.entities.player)], i)

RECURSIVE CrowLoop(_, _, _)
CrowLoop(w, i, c) ==
  IF i > Len(w.entities.crows) THEN w
  ELSE CrowLoop(CrowStep(w, i, c), i + 1, c)

(* Lines 972-976.                                                          *)
SpawnCrow(w, c) ==
  IF /\ w.state.level # 3
     /\ w.engine.frameCount % CrowSpawnFrames = 0
     /\ Len(w.entities.crows) < CrowCap
  THEN [w EXCEPT !.entities.crows = Append(@, NewCrow(w, c.side, c.crowVx))]
  ELSE w

updateCrows(w, c) ==
  [CrowLoop(SpawnCrow(w, c), 1, c) EXCEPT !.entities.crows = Purge(@)]

---------------------------------------------------------------------------
(* Arrows and nets                                                         *)

(* An arrow (or net) that advances this tick arrives at the goal when the  *)
(* goal lies on the side it flies to.                                      *)
Flies(a, goal) ==
  /\ goal # Null
  /\ IF a.dir[1] # 0 THEN Sign(goal.x - a.x) \in {a.dir[1], 0}
     ELSE goal.x = a.x /\ Sign(goal.y - a.y) \in {a.dir[2], 0}

ArrowDamage(w) ==
  LET p == w.entities.player IN
  HP * (IF p # Null /\ p.powerUpTimer > 0 THEN 3 ELSE 1)

(* Lines 1013-1021: arrow j against enemy i.                               *)
ArrowEnemy(w, j, i, c) ==
  LET a == w.entities.arrows[j]
      e == w.entities.enemies[i]
      w1 == [w EXCEPT !.entities.arrows[j].markedForDeletion = TRUE,
                      !.entities.enemies[i].health = @ - ArrowDamage(w),
                      !.obs.reHits =
                         IF a.markedForDeletion \/ e.markedForDeletion
                         THEN Append(@, [by |-> "arrow", on |-> "enemy"])
                         ELSE @]
  IN IF ~checkCollision(a, e) THEN w
     ELSE IF w1.entities.enemies[i].health <= 0 THEN killEnemy(w1, i, c)
     ELSE [w1 EXCEPT !.entities.enemies[i].vx = 0 - @,
                     !.entities.enemies[i].stunTimer = ArrowStunFrames]

RECURSIVE ArrowEnemies(_, _, _, _)
ArrowEnemies(w, j, i, c) ==
  IF i > Len(w.entities.enemies) THEN w
  ELSE ArrowEnemies(ArrowEnemy(w, j, i, c), j, i + 1, c)

(* Lines 1022-1027: arrow j against crow i.                                *)
ArrowCrow(w, j, i) ==
  LET a == w.entities.arrows[j]
      k == w.entities.crows[i]
      w1 == [w EXCEPT !.entities.arrows[j].markedForDeletion = TRUE,
                      !.entities.crows[i].health = @ - 1,
                      !.obs.reHits =
                         IF a.markedForDeletion \/ k.markedForDeletion
                         THEN Append(@, [by |-> "arrow", on |-> "crow"])
                         ELSE @]
  IN IF ~checkCollision(a, k) THEN w
     ELSE IF w1.entities.crows[i].health <= 0
          THEN [w1 EXCEPT !.entities.crows[i].markedForDeletion = TRUE,
                          !.state.score = @ + CrowReward,
                          !.obs.crowKills = Append(@, k.id)]
          ELSE w1

RECURSIVE ArrowCrows(_, _, _)
ArrowCrows(w, j, i) ==
  IF i > Len(w.entities.crows) THEN w
  ELSE ArrowCrows(ArrowCrow(w, j, i), j, i + 1)

checkPlatformCollisionsSimple(w, a) ==
  LET feetX == a.x + a.width \div 2
      feetY == a.y + a.height
      ps == w.entities.platforms
  IN \E k \in 1..Len(ps) :
        /\ feetX > ps[k].x /\ feetX < ps[k].x + ps[k].width
        /\ feetY >= ps[k].y /\ feetY <= ps[k].y + 10

(* One iteration of the forEach of updateArrows (lines 1005-1029).         *)
ArrowStep(w, j, c) ==
  LET a0 == w.entities.arrows[j]
      a1 == [a0 EXCEPT !.lifeTime = @ - 1,
                       !.markedForDeletion = IF a0.lifeTime - 1 <= 0 THEN TRUE ELSE @]
      a2 == IF j \in c.amove /\ Flies(a1, c.goal)
            THEN [a1 EXCEPT !.x = c.goal.x, !.y = c.goal.y] ELSE a1
      w1 == [w EXCEPT !.entities.arrows[j] = a2]
      w2 == ArrowEnemies(w1, j, 1, c)
      w3 == ArrowCrows(w2, j, 1)
  IN IF ~isTopDownLevel(w.state.level) /\ checkPlatformCollisionsSimple(w3, a2)
     THEN [w3 EXCEPT !.entities.arrows[j].markedForDeletion = TRUE]
     ELSE w3

RECURSIVE ArrowLoop(_, _, _)
ArrowLoop(w, j, c) ==
  IF j > Len(w.entities.arrows) THEN w
  ELSE ArrowLoop(ArrowStep(w, j, c), j + 1, c)

updateArrows(w, c) ==
  [ArrowLoop(w, 1, c) EXCEPT !.entities.arrows = Purge(@)]

(* Line 1039: net j against enemy i.                                       *)
NetEnemy(w, j, i) ==
  IF checkCollision(w.entities.traps[j], w.entities.enemies[i])
  THEN [w EXCEPT !.entities.traps[j].markedForDeletion = TRUE,
                 !.entities.enemies[i].stunTimer = NetStunFrames,
                 !.obs.reHits =
                    IF w.entities.traps[j].markedForDeletion
                       \/ w.entities.enemies[i].markedForDeletion
                    THEN Append(@, [by |-> "net", on |-> "enemy"])
                    ELSE @]
  ELSE w

RECURSIVE NetEnemies(_, _, _)
NetEnemies(w, j, i) ==
  IF i > Len(w.entities.enemies) THEN w
  ELSE NetEnemies(NetEnemy(w, j, i), j, i + 1)

(* One iteration of the forEach of updateNets; c.netFalls: the net has     *)
(* dropped below the canvas.                                               *)
NetStep(w, j, c) ==
  LET t0 == w.entities.traps[j]
      t1 == IF c.netFalls THEN [t0 EXCEPT !.y = CANVAS_HEIGHT + 1]
            ELSE IF j \in c.tmove /\ Flies(t0, c.goal)
                 THEN [t0 EXCEPT !.x = c.goal.x, !.y = c.goal.y] ELSE t0
      t2 == [t1 EXCEPT !.markedForDeletion = IF t1.y > CANVAS_HEIGHT THEN TRUE ELSE @]
  IN IF t0.state # "FLYING" THEN w
     ELSE NetEnemies([w EXCEPT !.entities.traps[j] = t2], j, 1)

RECURSIVE NetLoop(_, _, _)
NetLoop(w, j, c) ==
  IF j > Len(w.entities.traps) THEN w
  ELSE NetLoop(NetStep(w, j, c), j + 1, c)

updateNets(w, c) ==
  [NetLoop(w, 1, c) EXCEPT !.entities.traps = Purge(@)]

---------------------------------------------------------------------------
(* Pickups                                                                 *)

Landed(w, m) ==
  IF isTopDownLevel(w.state.level) THEN m ELSE [m EXCEPT !.y = FloorY - m.height]

MeatStep(w, i) ==
  LET m == Landed(w, w.entities.meats[i])
      p == w.entities.player
      w1 == [w EXCEPT !.entities.meats[i] = m]
  IN IF checkCollision(p, m)
     THEN [w1 EXCEPT !.entities.meats[i].markedForDeletion = TRUE,
                     !.entities.player.health = Min(p.maxHealth, p.health + MeatHeal),
                     !.state.score = @ + MeatReward,
                     !.obs.eaten = @ + 1]
     ELSE w1

RECURSIVE MeatLoop(_, _)
MeatLoop(w, i) ==
  IF i > Len(w.entities.meats) THEN w ELSE MeatLoop(MeatStep(w, i), i + 1)

updateMeats(w) == [MeatLoop(w, 1) EXCEPT !.entities.meats = Purge(@)]

PowerUpStep(w, i) ==
  LET u == Landed(w, w.entities.powerups[i])
      w1 == [w EXCEPT !.entities.powerups[i] = u]
  IN IF checkCollision(w.entities.player, u)
     THEN [w1 EXCEPT !.entities.powerups[i].markedForDeletion = TRUE,
                     !.entities.player.powerUpTimer = u.timer]
     ELSE w1

RECURSIVE PowerUpLoop(_, _)
PowerUpLoop(w, i) ==
  IF i > Len(w.entities.powerups) THEN w ELSE PowerUpLoop(PowerUpStep(w, i), i + 1)

updatePowerUps(w) == [PowerUpLoop(w, 1) EXCEPT !.entities.powerups = Purge(@)]

---------------------------------------------------------------------------
(* Companion, platformer levels (updateDog, lines 800-883)                 *)

DogGroundY == FloorY - 24

Eligible(dog, e) ==
  /\ e.stunTimer <= 0
  /\ ~e.markedForDeletion
  /\ DistLT(e.x, e.y, dog.x, dog.y, 600)

(* Lines 817-822: index of the nearest eligible enemy (the first one among *)
(* equally near ones, as d < minDist is strict), or 0.                     *)
NearestEnemy(w) ==
  LET dog == w.entities.dog
      es == w.entities.enemies
      ok == {i \in 1..Len(es) : Eligible(dog, es[i])}
  IN IF ok = {} THEN 0
     ELSE CHOOSE i \in ok : \A j \in ok :
            \/ DistSq(es[i].x, es[i].y, dog.x, dog.y) < DistSq(es[j].x, es[j].y, dog.x, dog.y)
            \/ (DistSq(es[i].x, es[i].y, dog.x, dog.y) = DistSq(es[j].x, es[j].y, dog.x, dog.y) /\ i <= j)

(* dog.target = t; the observation notes whether t was flagged then.       *)
Pick(w, t) ==
  [w EXCEPT !.entities.dog.target = t,
            !.obs.picks = Append(@, [kind |-> t.kind, id |-> t.id,
                                     flagged |-> Deref(w, t).markedForDeletion])]

(* Lines 801-808: the whistle, and the aggression timer running down.      *)
DogHear(w, whistle) ==
  [w EXCEPT !.entities.dog =
     IF whistle
     THEN [@ EXCEPT !.aggroTimer = WhistleAggroFrames - 1, !.target = Null,
                    !.state = "IDLE"]
     ELSE [@ EXCEPT !.aggroTimer = IF @ > 0 THEN @ - 1 ELSE @]]

(* Lines 812-815: a target flagged for deletion is dropped.                *)
DogForget(w) ==
  IF /\ w.entities.dog.target # Null
     /\ w.entities.dog.target.kind = "enemy"
     /\ Deref(w, w.entities.dog.target).markedForDeletion
  THEN [w EXCEPT !.entities.dog.target = Null, !.entities.dog.state = "IDLE"]
  ELSE w

(* Lines 816-824: the nearest eligible enemy becomes the target.           *)
DogSeek(w) ==
  IF /\ w.entities.dog.state # "BRAWL"
     /\ w.entities.dog.target = Null
     /\ NearestEnemy(w) # 0
  THEN Pick([w EXCEPT !.entities.dog.state = "CHASE"],
            Ref("enemy", w.entities.enemies[NearestEnemy(w)].id))
  ELSE w

(* Lines 826-828: the companion is by the hunter, no enemy is near it and  *)
(* the hunter is wounded.                                                  *)
CanHeal(w) ==
  /\ DistLT(w.entities.player.x, w.entities.player.y,
            w.entities.dog.x, w.entities.dog.y, 50)
  /\ ~\E i \in 1..Len(w.entities.enemies) :
        DistLT(w.entities.enemies[i].x, w.entities.enemies[i].y,
               w.entities.dog.x, w.entities.dog.y, 300)
  /\ w.entities.player.health < w.entities.player.maxHealth

(* Lines 826-835: by the wounded hunter with no enemy near, the companion  *)
(* comes to heal; otherwise it follows.                                    *)
DogRest(w) ==
  IF CanHeal(w)
  THEN [w EXCEPT !.entities.dog.healTimer = @ + 1,
                 !.entities.dog.state =
                    IF w.entities.dog.healTimer + 1 > HealFrames THEN "HEAL" ELSE @]
  ELSE [w EXCEPT !.entities.dog.healTimer = 0,
                 !.entities.dog.state = "FOLLOW",
                 !.entities.dog.target = Ref("player", 0)]

(* Lines 836-841.                                                          *)
DogArrive(w) ==
  IF /\ w.entities.dog.state = "FOLLOW"
     /\ Abs(w.entities.player.x - w.entities.dog.x) < 50
     /\ Abs(w.entities.player.y - w.entities.dog.y) < 50
  THEN [w EXCEPT !.entities.dog.state = "IDLE", !.entities.dog.target = Null]
  ELSE w

(* Lines 809-842.                                                          *)
DogMood(w) ==
  IF w.entities.dog.aggroTimer > 0 THEN DogSeek(DogForget(w))
  ELSE DogArrive(DogRest(w))

(* Lines 801-842: whistle, aggression timer, target choice, heal/follow.   *)
DogDecide(w, whistle) == DogMood(DogHear(w, whistle))

(* Lines 875-882 and 884-885: movement (the companion stays or arrives at  *)
(* goalX when that lies the way it runs), floor, horizontal clamp.         *)
DogSettle(w, goalX, go) ==
  [w EXCEPT !.entities.dog.x =
               ClampX(IF /\ w.entities.dog.state # "BRAWL" /\ go
                         /\ w.entities.dog.vx # 0
                         /\ Sign(goalX - @) = w.entities.dog.vx
                      THEN goalX ELSE @, w.entities.dog.width),
            !.entities.dog.y =
               IF w.entities.dog.state # "BRAWL" THEN DogGroundY ELSE @]

(* Lines 843-850.                                                          *)
DogHeals(w) ==
  [w EXCEPT !.entities.dog.vx = 0,
            !.entities.player.health =
               IF w.engine.frameCount % HealFrames = 0
               THEN Min(w.entities.player.maxHealth, @ + DogHeal) ELSE @]

(* Lines 854-856: the enemy is held and the companion is on it.            *)
DogGrip(w, i) ==
  [w EXCEPT !.entities.enemies[i].vx = 0,
            !.entities.dog.x = w.entities.enemies[i].x,
            !.entities.dog.y = w.entities.enemies[i].y - 10]

(* Lines 857-863: a bite of half a point every BiteFrames frames.          *)
DogBite(w, i, c) ==
  IF w.engine.frameCount % BiteFrames # 0 THEN w
  ELSE IF w.entities.enemies[i].health - 1 <= 0
       THEN [killEnemy([w EXCEPT !.entities.enemies[i].health = @ - 1], i, c)
               EXCEPT !.entities.dog.state = "IDLE", !.entities.dog.target = Null]
       ELSE [w EXCEPT !.entities.enemies[i].health = @ - 1]

(* Lines 851-864.                                                          *)
DogBrawl(w, c) ==
  IF \/ Deref(w, w.entities.dog.target).health <= 0
     \/ Deref(w, w.entities.dog.target).markedForDeletion
  THEN [w EXCEPT !.entities.dog.state = "IDLE", !.entities.dog.target = Null]
  ELSE DogSettle(
         DogBite(DogGrip(w, IndexOfId(w.entities.enemies, w.entities.dog.target.id)),
                 IndexOfId(w.entities.enemies, w.entities.dog.target.id), c),
         0, FALSE)

(* Lines 867-872: the run at the target t, or the leap to a far hunter.    *)
mutant_DogTrack(w, t, dx, dy) ==
  [w EXCEPT !.entities.dog =
     [@ EXCEPT !.vx = IF dx # 0 THEN Sign(dx) ELSE @,
               !.facingRight = dx > 0]]

DogTrack(w, t, dx, dy) ==
  [w EXCEPT !.entities.dog =
     IF dx * dx + dy * dy > 400 * 400 /\ @.state = "FOLLOW"
     THEN [@ EXCEPT !.vx = 0, !.facingRight = dx > 0, !.x = t.x, !.y = t.y]
     ELSE [@ EXCEPT !.vx = IF dx # 0 THEN Sign(dx) ELSE @,
                    !.facingRight = dx > 0]]

(* Line 873.                                                               *)
DogClinch(w, t) ==
  IF /\ w.entities.dog.state = "CHASE"
     /\ checkCollision(w.entities.dog, t)
     /\ w.entities.dog.target.kind = "enemy"
  THEN [w EXCEPT !.entities.dog.state = "BRAWL"] ELSE w

(* Lines 865-874.                                                          *)
DogRun(w, t, go) ==
  DogSettle(
    DogClinch(DogTrack(w, t,
                       (t.x + t.width \div 2)
                         - (w.entities.dog.x + w.entities.dog.width \div 2),
                       t.y - w.entities.dog.y), t),
    t.x + t.width \div 2 - w.entities.dog.width \div 2, go)

(* Lines 843-885.                                                          *)
DogAct(w, c) ==
  CASE w.entities.dog.state = "HEAL" -> DogSettle(DogHeals(w), 0, FALSE)
    [] w.entities.dog.state = "BRAWL" /\ w.entities.dog.target # Null ->
         DogBrawl(w, c)
    [] w.entities.dog.state \in {"FOLLOW", "CHASE"}
       /\ w.entities.dog.target # Null ->
         DogRun(w, Deref(w, w.entities.dog.target), c.dgo)
    [] OTHER ->
         DogSettle([w EXCEPT !.entities.dog.vx =
                               IF w.entities.dog.state = "IDLE" THEN 0 ELSE @],
                   0, FALSE)

(* Observation: one more tick in a row with the conditions of healing met, *)
(* or the row broken.                                                      *)
Streak(w) == [w EXCEPT !.obs.streak = IF CanHeal(w) THEN @ + 1 ELSE 0]

updateDogPlatformer(w, whistle, c) ==
  DogAct(DogDecide(Streak(w), whistle), c)

---------------------------------------------------------------------------
(* Companion, hunting level (updateDog, lines 683-799)                     *)

(* Velocity toward a goal, kept as signs; the companion arrives when it    *)
(* advances this tick.                                                     *)
DogToward(w, gx, gy, go) ==
  LET d == w.entities.dog IN
  [w EXCEPT !.entities.dog.vx = Sign(gx - d.x),
            !.entities.dog.vy = Sign(gy - d.y),
            !.entities.dog.x = IF go THEN gx ELSE @,
            !.entities.dog.y = IF go THEN gy ELSE @]

DogFaces(w) == [w EXCEPT !.entities.dog.facingRight = w.entities.dog.vx > 0]

HasHiddenRabbit(w, bush) ==
  \E i \in 1..Len(w.entities.rabbits) :
     /\ w.entities.rabbits[i].state = "HIDDEN"
     /\ Abs(w.entities.rabbits[i].x - bush.x) < 20

(* Lines 763-772: index of the nearest bush within 400 that shelters a     *)
(* hidden rabbit, or 0.                                                    *)
SmellTarget(w) ==
  LET d == w.entities.dog
      bs == w.entities.bushes
      ok == {i \in 1..Len(bs) :
               DistLT(bs[i].x, bs[i].y, d.x, d.y, 400) /\ HasHiddenRabbit(w, bs[i])}
  IN IF ok = {} THEN 0
     ELSE CHOOSE i \in ok : \A j \in ok :
            \/ DistSq(bs[i].x, bs[i].y, d.x, d.y) < DistSq(bs[j].x, bs[j].y, d.x, d.y)
            \/ (DistSq(bs[i].x, bs[i].y, d.x, d.y) = DistSq(bs[j].x, bs[j].y, d.x, d.y) /\ i <= j)

(* Lines 684-705.                                                          *)
DogCarry(w, c) ==
  LET d == w.entities.dog
      p == w.entities.player
  IN IF DistGT(p.x, p.y, d.x, d.y, 40)
     THEN DogFaces(DogToward(w, p.x, p.y, c.dgo))
     ELSE DogFaces(
            [w EXCEPT !.entities.meats = Append(@, NewMeat(w, d.x, d.y, 50)),
                      !.state.enemiesKilled = @ + 1,
                      !.obs.delivered = @ + 1,
                      !.entities.dog.state = "IDLE",
                      !.entities.dog.target = Null])

(* The whistle sending the companion to flush from any state.              *)
mutant_DogWhistle(w, whistle) ==
  IF ~whistle THEN w
  ELSE [w EXCEPT !.entities.dog.state = "FLUSH",
                 !.entities.dog.aggroTimer = FlushAggroFrames]

(* Lines 706-715.                                                          *)
DogWhistle(w, whistle) ==
  IF ~whistle THEN w
  ELSE IF w.entities.dog.state = "POINTING"
       THEN [w EXCEPT !.entities.dog.state = "FLUSH",
                      !.entities.dog.aggroTimer = FlushAggroFrames]
       ELSE [w EXCEPT !.entities.dog.state = "FOLLOW"]

(* Line 716: rabbits.find(r => r.state === 'FLEE' && !r.isHidden)          *)
VisibleRabbit(w) ==
  FindFirst(w.entities.rabbits, LAMBDA r : r.state = "FLEE" /\ ~r.isHidden)

(* Lines 716-720.                                                          *)
DogSight(w) ==
  LET v == VisibleRabbit(w) IN
  IF v # 0 /\ w.entities.dog.state # "CARRY"
  THEN Pick([w EXCEPT !.entities.dog.state = "CHASE"],
            Ref("rabbit", w.entities.rabbits[v].id))
  ELSE w

(* Lines 721-796.                                                          *)
DogHunt(w, c) ==
  LET d == w.entities.dog
      p == w.entities.player
  IN
  CASE d.state = "CHASE" /\ d.target # Null ->
         LET rabbit == Deref(w, d.target)
             i == IndexOfId(w.entities.rabbits, d.target.id)
         IN IF rabbit.state = "HIDDEN" \/ rabbit.markedForDeletion
            THEN [w EXCEPT !.entities.dog.state = "IDLE", !.entities.dog.target = Null]
            ELSE IF DistLT(rabbit.x, rabbit.y, d.x, d.y, 20)
                 THEN [w EXCEPT !.entities.dog.state = "CARRY",
                                !.entities.rabbits[i].markedForDeletion = TRUE,
                                !.obs.caught = Append(@, rabbit.id)]
                 ELSE DogToward(w, rabbit.x, rabbit.y, c.dgo)
    [] d.state = "FLUSH" /\ d.target # Null ->
         LET bush == Deref(w, d.target)
             b == IndexOfId(w.entities.bushes, d.target.id)
             r == FindFirst(w.entities.rabbits,
                            LAMBDA x : x.state = "HIDDEN" /\ Abs(x.x - bush.x) < 20)
             w1 == [w EXCEPT !.entities.bushes[b].shakeTimer = 30]
         IN IF Abs(bush.x - d.x) < 10 /\ Abs(bush.y - d.y) < 10
            THEN IF r # 0
                 THEN [w1 EXCEPT !.entities.rabbits[r].state = "FLEE",
                                 !.entities.rabbits[r].isHidden = FALSE,
                                 !.entities.rabbits[r].fleeTimer = FleeFrames]
                 ELSE [w1 EXCEPT !.entities.dog.state = "IDLE"]
            ELSE DogToward(w, bush.x, bush.y, c.dgo)
    [] d.state = "POINTING" ->
         [w EXCEPT !.entities.dog.vx = 0, !.entities.dog.vy = 0]
    [] OTHER ->
         LET s == SmellTarget(w) IN
         IF s # 0
         THEN LET bush == w.entities.bushes[s] IN
              IF DistGT(bush.x, bush.y, d.x, d.y, 60)
              THEN DogToward(w, bush.x, bush.y, c.dgo)
              ELSE Pick([w EXCEPT !.entities.dog.state = "POINTING"],
                        Ref("bush", bush.id))
         ELSE IF DistGT(p.x - 30, p.y, d.x, d.y, 60)
              THEN DogToward(w, p.x - 30, p.y, c.dgo)
              ELSE [w EXCEPT !.entities.dog.vx = 0, !.entities.dog.vy = 0]

(* Lines 884-885.                                                          *)
DogClamp(w) ==
  [w EXCEPT !.entities.dog.x = ClampX(@, w.entities.dog.width)]

updateDogHunt(w, whistle, c) ==
  IF w.entities.dog.state = "CARRY" THEN DogCarry(w, c)
  ELSE DogClamp(DogFaces(DogHunt(DogSight(DogWhistle(w, whistle)), c)))

updateDog(w, whistle, c) ==
  IF w.state.level = 3 THEN updateDogHunt(w, whistle, c)
  ELSE updateDogPlatformer(w, whistle, c)

---------------------------------------------------------------------------
(* Bushes and rabbits (updateBushesAndRabbits, lines 601-656)              *)

(* Where a fleeing rabbit can run to: into a bush (at its own spot or at   *)
(* the bush's corner) or to the far corner of the field.                   *)
RabbitSpots ==
  {Station(BushSpot(i).x + 10, BushSpot(i).y + 10) : i \in 1..NumBushes}
  \cup {Station(BushSpot(i).x - 10, BushSpot(i).y - 10) : i \in 1..NumBushes}
  \cup {Station(900, 500)}

RabbitStep(w, i, c) ==
  LET r == w.entities.rabbits[i]
      p == w.entities.player
      d == w.entities.dog
      bs == w.entities.bushes
  IN
  CASE r.state = "HIDDEN" ->
         LET b == FindFirst(bs, LAMBDA k : Abs(k.x - r.x + 10) < 10
                                           /\ Abs(k.y - r.y + 10) < 10)
         IN IF b = 0
            THEN [w EXCEPT !.entities.rabbits[i].state = "IDLE",
                           !.entities.rabbits[i].isHidden = FALSE]
            ELSE IF DistLT(p.x, p.y, r.x, r.y, 30)
                    \/ (d.state = "FLUSH" /\ DistLT(d.x, d.y, r.x, r.y, 30))
                 THEN [w EXCEPT !.entities.rabbits[i].state = "FLEE",
                                !.entities.rabbits[i].isHidden = FALSE,
                                !.entities.rabbits[i].fleeTimer = FleeFrames,
                                !.entities.bushes[b].shakeTimer = 20]
                 ELSE w
    [] r.state = "FLEE" ->
         LET runs == i \in c.rmove /\ c.rto \in RabbitSpots
             r1 == [r EXCEPT !.fleeTimer = @ - 1,
                             !.vx = IF runs THEN Sign(c.rto.x - r.x) ELSE @,
                             !.vy = IF runs THEN Sign(c.rto.y - r.y) ELSE @,
                             !.x = IF runs THEN c.rto.x ELSE @,
                             !.y = IF runs THEN c.rto.y ELSE @]
             b == FindFirst(bs, LAMBDA k : Abs(k.x - r1.x) < 20 /\ Abs(k.y - r1.y) < 20)
             w1 == [w EXCEPT !.entities.rabbits[i] = r1]
             w2 == [w1 EXCEPT !.entities.rabbits[i].state = "HIDDEN",
                              !.entities.rabbits[i].isHidden = TRUE,
                              !.entities.rabbits[i].vx = 0,
                              !.entities.rabbits[i].vy = 0,
                              !.entities.bushes[b].shakeTimer = 10]
         IN IF r1.fleeTimer % 10 = 0 /\ b # 0
            THEN IF d.target = Ref("rabbit", r.id)
                 THEN [w2 EXCEPT !.entities.dog.state = "IDLE",
                                 !.entities.dog.target = Null]
                 ELSE w2
            ELSE w1
    [] OTHER -> w

RECURSIVE RabbitLoop(_, _, _)
RabbitLoop(w, i, c) ==
  IF i > Len(w.entities.rabbits) THEN w
  ELSE RabbitLoop(RabbitStep(w, i, c), i + 1, c)

updateBushesAndRabbits(w, c) ==
  LET bs == w.entities.bushes
      w1 == [w EXCEPT !.entities.bushes =
               [k \in 1..Len(bs) |->
                  [bs[k] EXCEPT !.shakeTimer = IF @ > 0 THEN @ - 1 ELSE @]]]
  IN RabbitLoop(w1, 1, c)

---------------------------------------------------------------------------
(* update (lines 398-511)                                                  *)

DropDetached(w) ==
  IF w.entities.dog # Null /\ w.entities.dog.target # Null
     /\ w.entities.dog.target.kind = "enemy"
     /\ ~InWorld(w, w.entities.dog.target)
  THEN w ELSE [w EXCEPT !.entities.detached = Null]

(* Lines 402-412; c.lightning: Math.random() < 0.005.                      *)
Weather(w, c) ==
  IF ~w.state.isRaining THEN w
  ELSE [w EXCEPT !.state.lightningTimer =
                    IF c.lightning THEN 4 ELSE IF @ > 0 THEN @ - 1 ELSE @]

(* Lines 417-419.                                                          *)
OpenDoor(w) ==
  [w EXCEPT !.entities.door.isOpen =
               w.state.enemiesKilled >= w.state.enemiesRequired]

(* Lines 476-477.                                                          *)
MovePlayer(w, cmd, c) ==
  IF isTopDownLevel(w.state.level)
  THEN updateRPGPhysics(w, cmd.dx, cmd.dy, cmd.dash, c.pto)
  ELSE updatePlatformerPhysics(w, cmd.dx, cmd.jump, cmd.dash, c.pto)

(* Lines 486-492.                                                          *)
Shoot(w, cmd) ==
  IF cmd.shootCommand
     /\ w.engine.frameCount
          % (IF w.entities.player.powerUpTimer > 0 THEN FireRatePowered
             ELSE FireRateNormal) = 0
  THEN fireArrow(w) ELSE w

(* ThrowNet without the cooldown test.                                     *)
mutant_ThrowNet(w, cmd) ==
  IF cmd.throwNet
  THEN [fireNet(w) EXCEPT !.entities.player.trapCooldown = TRAP_COOLDOWN_FRAMES]
  ELSE [w EXCEPT !.entities.player.trapCooldown = IF @ > 0 THEN @ - 1 ELSE @]

(* Lines 494-498.                                                          *)
ThrowNet(w, cmd) ==
  IF cmd.throwNet /\ w.entities.player.trapCooldown <= 1
  THEN [fireNet(w) EXCEPT !.entities.player.trapCooldown = TRAP_COOLDOWN_FRAMES]
  ELSE [w EXCEPT !.entities.player.trapCooldown = IF @ > 0 THEN @ - 1 ELSE @]

(* Lines 483-498.                                                          *)
Shooting(w, cmd) ==
  ThrowNet(Shoot([w EXCEPT !.entities.player.powerUpTimer =
                              IF @ > 0 THEN @ - 1 ELSE @], cmd), cmd)

(* Lines 509-510.                                                          *)
Companion(w, cmd, c) ==
  IF w.entities.dog # Null THEN updateDog(w, cmd.whistle, c) ELSE w

Hunt(w, c) ==
  IF isTopDownLevel(w.state.level) /\ w.entities.dog # Null
  THEN updateBushesAndRabbits(w, c) ELSE w

(* Lines 500-510.                                                          *)
Simulate(w, cmd, c) ==
  Hunt(Companion(updatePowerUps(updateMeats(updateNets(updateArrows(
         updateCrows(updateEnemies(w, c), c), c), c))), cmd, c), c)

(* Lines 478-510: after the hunter has moved.                              *)
AfterMove(w, cmd, c) ==
  IF w.entities.door.isOpen /\ checkCollision(w.entities.player, w.entities.door)
  THEN nextLevel(w)
  ELSE DropDetached(Simulate(Shooting(w, cmd), cmd, c))

(* Lines 414-510: a frame of a running game with a hunter.                 *)
Playing(w, cmd, c) ==
  AfterMove(MovePlayer(ResolveAim(OpenDoor(w)), cmd, c), cmd, c)

Raining(w, c) ==
  IF w.entities.player = Null THEN w ELSE Playing(w, Command(w), c)

update(w, c) ==
  IF w.state.status # "PLAYING"
  THEN [w EXCEPT !.engine.frameCount = @ + 1]
  ELSE Raining(Weather([w EXCEPT !.engine.frameCount = @ + 1], c), c)

---------------------------------------------------------------------------
(* The choices of one frame: Math.random() draws and which entities        *)
(* advance.  A choice that cannot matter in the current state is fixed.    *)

Here(e) == Station(e.x, e.y)

Goals(w) ==
  {Here(w.entities.enemies[i]) : i \in 1..Len(w.entities.enemies)}
  \cup {Here(w.entities.crows[i]) : i \in 1..Len(w.entities.crows)}

Choices(w) ==
  LET st == w.state
      en == w.entities
      playing == st.status = "PLAYING" /\ en.player # Null
      frame == w.engine.frameCount + 1
      cmd == Command(w)
      platformer == playing /\ ~isTopDownLevel(st.level)
      spawnsEnemy == platformer /\ frame % SpawnPeriod(st.level) = 0
                     /\ Len(en.enemies) < EnemyCap
      spawnsCrow == platformer /\ frame % CrowSpawnFrames = 0
                    /\ Len(en.crows) < CrowCap
      moves == playing /\ (cmd.dx # 0 \/ cmd.dy # 0 \/ cmd.jump \/ cmd.dash
                            \/ en.player.isDashing)
      nE == IF playing THEN Len(en.enemies) + (IF spawnsEnemy THEN 1 ELSE 0) ELSE 0
      nC == IF playing THEN Len(en.crows) + (IF spawnsCrow THEN 1 ELSE 0) ELSE 0
      fires == playing /\ cmd.shootCommand
               /\ frame % (IF en.player.powerUpTimer > 1 THEN FireRatePowered
                            ELSE FireRateNormal) = 0
      throws == playing /\ cmd.throwNet /\ en.player.trapCooldown <= 1
      targets == playing /\ nE + nC > 0
      nA == IF targets THEN Len(en.arrows) + (IF fires THEN 1 ELSE 0) ELSE 0
      nT == IF targets THEN Len(en.traps) + (IF throws THEN 1 ELSE 0) ELSE 0
      kills == nE > 0 /\ (nA > 0 \/ en.dog # Null)
      fleeing == IF playing /\ isTopDownLevel(st.level)
                 THEN {i \in 1..Len(en.rabbits) : en.rabbits[i].state = "FLEE"}
                 ELSE {}
  IN [lightning : IF playing /\ st.isRaining THEN BOOLEAN ELSE {FALSE},
      pto : IF moves THEN PlayerStations(st.level) ELSE {Null},
      tier : IF spawnsEnemy THEN Tiers ELSE {"SMALL"},
      side : IF spawnsEnemy \/ spawnsCrow THEN SpawnSides ELSE {0 - 50},
      crowVx : IF spawnsCrow THEN {2, 0 - 2} ELSE {2},
      emove : SUBSET (1..nE),
      cmove : SUBSET (1..nC),
      amove : SUBSET (1..nA),
      tmove : SUBSET (1..nT),
      goal : IF nA + nT > 0 /\ Goals(w) # {} THEN Goals(w) ELSE {Null},
      netFalls : IF playing /\ en.traps # <<>> THEN BOOLEAN ELSE {FALSE},
      meat : IF kills THEN BOOLEAN ELSE {FALSE},
      pup : IF kills THEN BOOLEAN ELSE {FALSE},
      dgo : IF playing /\ en.dog # Null THEN BOOLEAN ELSE {FALSE},
      rmove : SUBSET fleeing,
      rto : IF fleeing # {} THEN RabbitSpots ELSE {Null}]

---------------------------------------------------------------------------
(* Initial states                                                          *)

Constructed ==
  [state |-> [status |-> "MENU", level |-> 1, score |-> 0, lives |-> StartLives,
              enemiesKilled |-> 0, enemiesRequired |-> 4, isRaining |-> FALSE,
              lightningTimer |-> 0],
   entities |-> [player |-> Null, enemies |-> <<>>, crows |-> <<>>,
                 arrows |-> <<>>, traps |-> <<>>, platforms |-> <<>>,
                 door |-> Null, dog |-> Null, meats |-> <<>>,
                 powerups |-> <<>>, bushes |-> <<>>, rabbits |-> <<>>,
                 detached |-> Null],
   input |-> [keys |-> {},
              mouse |-> [x |-> 0, y |-> 0, leftDown |-> FALSE],
              touch |-> [leftStick |-> [active |-> FALSE, x |-> 0, y |-> 0],
                         rightStick |-> [active |-> FALSE, x |-> 0, y |-> 0],
                         trapBtnPressed |-> FALSE,
                         whistleBtnPressed |-> FALSE,
                         dashBtnPressed |-> FALSE]],
   engine |-> [frameCount |-> FirstFrame],
   timers |-> <<>>,
   obs |-> NoObs("init")]

(* The game as it stands when level n has just been started in a game      *)
(* begun from the menu: initGame, then one transition per level passed.    *)
RECURSIVE LevelStarted(_)
LevelStarted(n) ==
  IF n = 1 THEN initGame(Constructed)
  ELSE transitionCallback(LevelStarted(n - 1))

(* The kills the levels before level n asked for.                          *)
RECURSIVE QuotaBefore(_)
QuotaBefore(n) ==
  IF n <= 1 THEN 0 ELSE QuotaBefore(n - 1) + enemiesRequiredOf(n - 1)

(* A later moment of level n: lives lost before, and some way into the     *)
(* level (kills made, damage taken, everything spawned so far killed).     *)
InLevel(n, lives, killed, health) ==
  [LevelStarted(n) EXCEPT !.state.lives = lives,
                          !.state.enemiesKilled = killed,
                          !.state.score = (QuotaBefore(n) + killed) * KillReward,
                          !.entities.player.health = health,
                          !.entities.player.y =
                             IF isTopDownLevel(n) THEN @ ELSE PlayerGroundY,
                          !.entities.player.grounded = ~isTopDownLevel(n),
                          !.entities.dog =
                             IF @ = Null \/ isTopDownLevel(n) THEN @
                             ELSE [@ EXCEPT !.y = DogGroundY],
                          !.obs = NoObs("init")]

---------------------------------------------------------------------------
(* Actions: the animation frame, the input handlers, the timeouts          *)

(* The step to w, kept within the bounds of the exploration.               *)
Within(w) ==
  /\ Len(w.entities.arrows) <= MaxArrows
  /\ Len(w.timers) <= MaxTimers
  /\ Becomes(w)

(* loop: update() of one animation frame, up to frame number last.         *)
Update(last, Only(_)) ==
  /\ engine.frameCount < last
  /\ \E c \in Choices(World) :
        Only(c) /\ Within(update(Began("update"), c))

handleKeyDown(code) ==
  /\ code \notin input.keys
  /\ LET w == [Began("keydown") EXCEPT !.input.keys = @ \cup {code}] IN
     Becomes(IF state.status \in {"MENU", "GAME_OVER", "VICTORY"}
                /\ code \in {"Space", "Enter"}
             THEN initGame(w) ELSE w)

handleKeyUp(code) ==
  /\ code \in input.keys
  /\ Becomes([Began("keyup") EXCEPT !.input.keys = @ \ {code}])

handleMouseDown(pt) ==
  LET w == [Began("mousedown") EXCEPT !.input.mouse =
              [x |-> pt.x, y |-> pt.y, leftDown |-> TRUE]]
  IN /\ ~input.mouse.leftDown
     /\ state.status = "PLAYING" /\ entities.player # Null
           => Len(entities.arrows) < MaxArrows
     /\ Becomes(IF state.status # "PLAYING" THEN initGame(w)
                ELSE IF entities.player # Null THEN fireArrow(w) ELSE w)

handleMouseUp ==
  /\ input.mouse.leftDown
  /\ Becomes([Began("mouseup") EXCEPT !.input.mouse.leftDown = FALSE])

handleTouchStart(which) ==
  LET w == Began("touchstart") IN
  IF state.status # "PLAYING" THEN Becomes(initGame(w))
  ELSE CASE which = "left" ->
              /\ ~input.touch.leftStick.active
              /\ Becomes([w EXCEPT !.input.touch.leftStick =
                                     [active |-> TRUE, x |-> 0, y |-> 0]])
         [] which = "right" ->
              /\ ~input.touch.rightStick.active
              /\ Becomes([w EXCEPT !.input.touch.rightStick =
                                     [active |-> TRUE, x |-> 0, y |-> 0]])
         [] which = "trap" ->
              /\ ~input.touch.trapBtnPressed
              /\ Becomes([w EXCEPT !.input.touch.trapBtnPressed = TRUE])
         [] which = "whistle" ->
              /\ ~input.touch.whistleBtnPressed
              /\ Becomes([w EXCEPT !.input.touch.whistleBtnPressed = TRUE])
         [] OTHER ->
              /\ ~input.touch.dashBtnPressed
              /\ Becomes([w EXCEPT !.input.touch.dashBtnPressed = TRUE])

(* Lines 1483-1484: the offset of the touch from the centre of the stick,  *)
(* shortened to JOYSTICK_RADIUS (offsets along an axis).                   *)
StickVector(v) ==
  [x |-> IF Abs(v.x) > JOYSTICK_RADIUS THEN Sign(v.x) * JOYSTICK_RADIUS ELSE v.x,
   y |-> IF Abs(v.y) > JOYSTICK_RADIUS THEN Sign(v.y) * JOYSTICK_RADIUS ELSE v.y]

handleTouchMove(which, v) ==
  LET w == Began("touchmove") IN
  IF which = "left"
  THEN /\ input.touch.leftStick.active
       /\ Becomes([w EXCEPT !.input.touch.leftStick.x = StickVector(v).x,
                            !.input.touch.leftStick.y = StickVector(v).y])
  ELSE /\ input.touch.rightStick.active
       /\ Becomes([w EXCEPT !.input.touch.rightStick.x = StickVector(v).x,
                            !.input.touch.rightStick.y = StickVector(v).y])

handleTouchEnd(which) ==
  LET w == Began("touchend") IN
  IF which = "left"
  THEN /\ input.touch.leftStick.active
       /\ Becomes([w EXCEPT !.input.touch.leftStick =
                              [active |-> FALSE, x |-> 0, y |-> 0]])
  ELSE /\ input.touch.rightStick.active
       /\ entities.player # Null => Len(entities.arrows) < MaxArrows
       /\ LET w1 == [w EXCEPT !.input.touch.rightStick =
                                [active |-> FALSE, x |-> 0, y |-> 0]]
          IN Becomes(IF entities.player # Null THEN fireArrow(w1) ELSE w1)

(* A pending timeout comes due and its callback runs.  Frames and the     *)
(* clock are not coupled (the browser may delay frames), so any pending    *)
(* timeout may be the next one due, except that a timeout scheduled later  *)
(* with a delay at least as long comes due later.                          *)
Timeout ==
  \E i \in 1..Len(timers) :
     /\ \A j \in 1..(i - 1) : timers[j].ms > timers[i].ms
     /\ LET t == timers[i]
            w == [Began(t.kind) EXCEPT
                    !.timers = SubSeq(timers, 1, i - 1)
                               \o SubSeq(timers, i + 1, Len(timers)),
                    !.obs.stale = t.stale]
        IN Becomes(IF t.kind = "transition" THEN transitionCallback(w)
                   ELSE respawnCallback(w))

---------------------------------------------------------------------------
(* The course of a game: from the menu, from a level whose quota is met or *)
(* nearly met, from a hunter one blow from death, and from the last level. *)
(* Keyboard and mouse.                                                     *)

Starts(ws) ==
  \E w \in ws :
     /\ state = w.state /\ entities = w.entities /\ input = w.input
     /\ engine = w.engine /\ timers = w.timers /\ obs = w.obs

Keys == {"KeyD"}
SmallOnly(c) == c.tier = "SMALL"

Init ==
  Starts({Constructed, InLevel(1, 3, 4, 100), InLevel(1, 2, 4, 10),
          InLevel(1, 1, 3, 10), InLevel(5, 2, 14, 100)})

Next ==
  \/ Update(LastFrame, SmallOnly)
  \/ \E k \in Keys : handleKeyDown(k)
  \/ \E k \in Keys : handleKeyUp(k)
  \/ handleTouchStart("whistle")
  \/ Timeout

Spec == Init /\ [][Next]_vars

---------------------------------------------------------------------------
(* Combat on the first level: the hunter stands at the start and shoots    *)
(* with the mouse to either side while an enemy comes in.                  *)

Clicks == {Station(10, 490)}
FromTheLeft(c) == c.side = 0 - 50 /\ ~c.pup

InitCombat ==
  Starts({InLevel(1, 3, 0, 100), InLevel(1, 2, 3, 5)})

NextCombat ==
  \/ Update(LastFrame, FromTheLeft)
  \/ \E pt \in Clicks : handleMouseDown(pt)
  \/ handleMouseUp
  \/ Timeout

SpecCombat == InitCombat /\ [][NextCombat]_vars

---------------------------------------------------------------------------
(* A stun: the hunter shoots at the first enemy that comes in from the     *)
(* left, and the enemy survives the arrow.                                 *)

StunWindow == 5

InitStun == Starts({InLevel(1, 3, 0, 100)})

NextStun ==
  \/ Update(FirstFrame + StunWindow, FromTheLeft)
  \/ \E pt \in Clicks : handleMouseDown(pt)
  \/ handleMouseUp

SpecStun == InitStun /\ [][NextStun]_vars

---------------------------------------------------------------------------
(* The hunt of level 3: the companion finds a bush, the hunter whistles,   *)
(* the rabbit is flushed, caught and brought back.                         *)

HuntWindow == 8
AnyChoice(c) == TRUE

InitHunt == Starts({InLevel(3, 3, 0, 100)})

NextHunt ==
  \/ Update(FirstFrame + HuntWindow, AnyChoice)
  \/ handleKeyDown("KeyR")
  \/ handleKeyUp("KeyR")

SpecHunt == InitHunt /\ [][NextHunt]_vars

---------------------------------------------------------------------------
(* The hunter's moves: walking, jumping, dashing and throwing nets with    *)
(* the keys                                                                *)
(* held or tapped, on a platformer level and on the top-down level.        *)

MoveKeys == {"KeyD", "KeyT", "ShiftLeft", "Space"}
MovesWindow == 3
FarEnemies(c) == c.side = 0 - 50 /\ c.tier = "SMALL" /\ c.emove = {} /\ ~c.netFalls

InitMoves == Starts({InLevel(1, 3, 0, 100), InLevel(3, 3, 0, 100)})

NextMoves ==
  \/ Update(FirstFrame + MovesWindow, FarEnemies)
  \/ \E k \in MoveKeys : handleKeyDown(k)
  \/ \E k \in MoveKeys : handleKeyUp(k)

SpecMoves == InitMoves /\ [][NextMoves]_vars

---------------------------------------------------------------------------
(* Aiming with the right stick on a touch screen: the thumb goes down on   *)
(* the stick, slides along an axis, and lifts (which shoots).              *)

StickMoves == {[x |-> 0 - 80, y |-> 0], [x |-> 0, y |-> 30], [x |-> 0, y |-> 0]}

InitAim == Starts({InLevel(1, 3, 0, 100)})

NextAim ==
  \/ Update(FirstFrame + MovesWindow, FarEnemies)
  \/ handleTouchStart("right")
  \/ \E v \in StickMoves : handleTouchMove("right", v)
  \/ handleTouchEnd("right")

SpecAim == InitAim /\ [][NextAim]_vars

---------------------------------------------------------------------------
(* checkCollision on its own: two rectangles on a grid of 10 pixels, and   *)
(* the test applied to them in both orders.                                *)

Rects ==
  {[x |-> 10 * i, y |-> 10 * j, width |-> 10 * k, height |-> 10 * l] :
     i \in 0..GeomMax, j \in 0..GeomMax, k \in 1..GeomMax, l \in 1..GeomMax}

InitGeom ==
  \E r1 \in Rects : \E r2 \in Rects :
     Starts({[Constructed EXCEPT
                !.obs = [act |-> "init", r1 |-> r1, r2 |-> r2,
                         hit |-> FALSE, back |-> FALSE]]})

Collide ==
  /\ obs.act = "init"
  /\ obs' = [obs EXCEPT !.act = "checkCollision",
                        !.hit = checkCollision(obs.r1, obs.r2),
                        !.back = checkCollision(obs.r2, obs.r1)]
  /\ UNCHANGED <<state, entities, input, engine, timers>>

NextGeom == Collide

SpecGeom == InitGeom /\ [][NextGeom]_vars

---------------------------------------------------------------------------
(* The companion on a platformer level: the hunter walks away from it      *)
(* across the field and may whistle, the companion follows or lags behind. *)

FollowKeys == {"KeyD", "KeyR"}

InitFollow == Starts({InLevel(4, 3, 0, 100), InLevel(5, 3, 0, 100)})

NextFollow ==
  \/ Update(FirstFrame + MovesWindow, FarEnemies)
  \/ \E k \in FollowKeys : handleKeyDown(k)
  \/ \E k \in FollowKeys : handleKeyUp(k)

SpecFollow == InitFollow /\ [][NextFollow]_vars

---------------------------------------------------------------------------
(* A long hunt on level 3: the companion runs whenever it can and a        *)
(* flushed rabbit runs for the far corner of the field, away from every    *)
(* bush, for longer than its fleeTimer counts.                             *)

FleeWindow == 310
Steady(c) ==
  /\ c.dgo
  /\ c.rto \in {Null, Station(900, 500)}
  /\ c.rmove = {i \in 1..Len(entities.rabbits) :
                  entities.rabbits[i].state = "FLEE"}

InitFlee == Starts({InLevel(3, 3, 0, 100)})

NextFlee ==
  \/ Update(FirstFrame + FleeWindow, Steady)
  \/ handleKeyDown("KeyR")
  \/ handleKeyUp("KeyR")

SpecFlee == InitFlee /\ [][NextFlee]_vars

---------------------------------------------------------------------------
(* Properties of the course of a game                                      *)

GatePassed ==
  /\ obs'.act = "update"
  /\ state.status = "PLAYING"
  /\ state.enemiesKilled >= state.enemiesRequired
  /\ entities'.door.isOpen
  /\ checkCollision(entities'.player, entities'.door)

(* C3: the level index moves to the next level, or the game is won, only   *)
(* as the consequence of a tick in which the game was PLAYING, the quota   *)
(* was met, the gate was open and the hunter overlapped it: the status     *)
(* leaves PLAYING for LEVEL_TRANSITION or VICTORY only in such a tick, and *)
(* the level rises only by the timeout that tick scheduled, while the      *)
(* transition it announced is still the current one.                       *)
C3_AdvanceOnlyThroughGate ==
  [][/\ (state'.level = state.level + 1
           => /\ obs'.act = "transition"
              /\ state.status = "LEVEL_TRANSITION"
              /\ ~obs'.stale)
     /\ (state'.status \in {"LEVEL_TRANSITION", "VICTORY"}
           /\ state'.status # state.status => GatePassed)]_vars

(* C4: a tick of a running game sets the gate's isOpen to whether the      *)
(* quota was met when the tick began; passing the gate calls nextLevel     *)
(* once, leaves PLAYING and schedules one transition; while the hunter     *)
(* stays on the gate afterwards the ticks do nothing, and the transition   *)
(* raises the level by exactly one.                                        *)
C4_GatePassedOnce ==
  [][/\ (obs'.act = "update" /\ state.status = "PLAYING" /\ entities.player # Null
           => entities'.door.isOpen
                = (state.enemiesKilled >= state.enemiesRequired))
     /\ obs'.nextLevels <= 1
     /\ (obs'.nextLevels = 1
           => /\ GatePassed
              /\ state'.status \in {"LEVEL_TRANSITION", "VICTORY"}
              /\ state'.level = state.level
              /\ IF state'.status = "VICTORY" THEN timers' = timers
                 ELSE timers' = Append(timers, [kind |-> "transition",
                                                ms |-> TransitionDelayMs,
                                                stale |-> FALSE]))
     /\ (obs'.act = "update" /\ state.status # "PLAYING"
           => obs'.nextLevels = 0 /\ state' = state /\ timers' = timers
              /\ entities' = entities)
     /\ (obs'.act = "transition" => state'.level = state.level + 1)]_vars

(* A tick that ran while the game waited for the next level with the       *)
(* hunter still on the open gate.                                          *)
C4_Witness ==
  /\ obs.act = "update"
  /\ state.status = "LEVEL_TRANSITION"
  /\ entities.door.isOpen
  /\ checkCollision(entities.player, entities.door)

(* C5: a blow that brings the hunter's health to 0 or below is one death;  *)
(* with one life left, lives becomes 0, the status GAME_OVER in the same   *)
(* tick and no restart is scheduled; with lives remaining the status stays *)
(* PLAYING and one restart of the level is scheduled, none performed yet.  *)
C5_DeathOutcome ==
  [][/\ (obs'.act = "update" /\ entities.player # Null
           /\ entities'.player.health < entities.player.health
           /\ entities'.player.health <= 0 => obs'.deaths = 1)
     /\ (obs'.deaths > 0
           => /\ obs'.deaths = 1
              /\ entities'.player.health <= 0
              /\ state'.lives = state.lives - 1
              /\ obs'.startLevels = 0
              /\ state.lives = 1
                   => state'.status = "GAME_OVER" /\ timers' = timers
              /\ state.lives > 1
                   => /\ state'.status = "PLAYING"
                      /\ state'.level = state.level
                      /\ timers' = Append(timers, [kind |-> "respawn",
                                                     ms |-> RespawnDelayMs,
                                                     stale |-> FALSE]))]_vars

(* The last life was lost in the tick just run.                            *)
C5_Witness ==
  obs.deaths = 1 /\ state.lives = 0 /\ state.status = "GAME_OVER"

(* C6: the callback of the level transition does nothing when the game was *)
(* restarted since it was scheduled or the status is no longer             *)
(* LEVEL_TRANSITION: no startLevel, status and level unchanged.            *)
C6_StaleTransitionIgnored ==
  [][obs'.act = "transition" /\ (obs'.stale \/ state.status # "LEVEL_TRANSITION")
       => obs'.startLevels = 0 /\ state'.status = state.status
          /\ state'.level = state.level]_vars

(* C7: the callback of the respawn does nothing when the status is not     *)
(* PLAYING as it fires: state and entities unchanged, no startLevel.       *)
C7_RespawnOnlyWhilePlaying ==
  [][obs'.act = "respawn" /\ state.status # "PLAYING"
       => state' = state /\ entities' = entities /\ obs'.startLevels = 0]_vars

(* A respawn callback has just run while the game was not PLAYING.         *)
C7_Witness ==
  obs.act = "respawn" /\ state.status # "PLAYING"

---------------------------------------------------------------------------
(* Properties of combat                                                    *)

InRange(e, max) == 0 <= e.health /\ e.health <= max

(* C1: in every state the health of the hunter and of every hostile        *)
(* creature lies between 0 and its maximum.                                *)
C1_HealthInRange ==
  /\ entities.player # Null => InRange(entities.player, entities.player.maxHealth)
  /\ \A i \in 1..Len(entities.enemies) :
        InRange(entities.enemies[i], entities.enemies[i].maxHealth)
  /\ \A i \in 1..Len(entities.crows) : InRange(entities.crows[i], CrowHealth)

(* C2: a creature that survives a hit stays unmarked, and in every step    *)
(* each creature killed is killed once: enemiesKilled rises by the number  *)
(* of creatures killed (and rabbits brought back) and the score by one     *)
(* kill reward for each, besides the rewards for crows and meat.           *)
C2_KillRewardOnce ==
  [][/\ \A i \in 1..Len(entities'.enemies) :
           entities'.enemies[i].markedForDeletion
             => entities'.enemies[i].health <= 0
     /\ obs'.act = "update" /\ obs'.startLevels = 0
          => /\ \A i, j \in 1..Len(obs'.kills) :
                   i # j => obs'.kills[i] # obs'.kills[j]
             /\ state'.enemiesKilled
                  = state.enemiesKilled + Len(obs'.kills) + obs'.delivered
             /\ state'.score
                  = state.score + KillReward * Len(obs'.kills)
                    + CrowReward * Len(obs'.crowKills)
                    + MeatReward * obs'.eaten]_vars

Flagged(list) == \E i \in 1..Len(list) : list[i].markedForDeletion

(* C8: when a tick has run, no list of the world holds an entity flagged   *)
(* for deletion.                                                           *)
C8_NoFlaggedAfterTick ==
  obs.act = "update"
    => /\ ~Flagged(entities.enemies) /\ ~Flagged(entities.crows)
       /\ ~Flagged(entities.arrows) /\ ~Flagged(entities.traps)
       /\ ~Flagged(entities.meats) /\ ~Flagged(entities.powerups)
       /\ ~Flagged(entities.rabbits)

---------------------------------------------------------------------------
(* Properties of the companion                                             *)

(* C9: whatever the companion takes as a new target (an enemy on the       *)
(* platformer levels, a rabbit on level 3) is not flagged for deletion     *)
(* when it is taken.                                                       *)
C9_NoFlaggedTargetPicked ==
  \A k \in 1..Len(obs.picks) : ~obs.picks[k].flagged

(* C10: when a tick has run, the companion's target is in the lists of the *)
(* world and unflagged; a target lost during the tick has been dropped and *)
(* the companion left IDLE or FOLLOW.                                      *)
C10_NoStaleTargetAfterTick ==
  obs.act = "update" /\ entities.dog # Null /\ entities.dog.target # Null
    /\ entities.dog.target.kind \in {"enemy", "rabbit"}
    => /\ InWorld(World, entities.dog.target)
       /\ ~Deref(World, entities.dog.target).markedForDeletion

(* C11: an entity flagged markedForDeletion takes part in no further       *)
(* collision effect: no step applies a hit in which the arrow, the net or  *)
(* the creature was already flagged.                                       *)
C11_NoHitOnFlagged == obs.reHits = <<>>

C13_CountdownsNonNegative ==
  /\ state.lightningTimer >= 0
  /\ entities.player # Null =>
        /\ entities.player.trapCooldown >= 0
        /\ entities.player.dashTimer >= 0
        /\ entities.player.invulnerableTimer >= 0
        /\ entities.player.powerUpTimer >= 0
  /\ entities.dog # Null => entities.dog.aggroTimer >= 0
  /\ \A i \in 1..Len(entities.enemies) : entities.enemies[i].stunTimer >= 0
  /\ \A i \in 1..Len(entities.rabbits) : entities.rabbits[i].fleeTimer >= 0
  /\ \A i \in 1..Len(entities.bushes) : entities.bushes[i].shakeTimer >= 0

(* C15: an arrow is created only by a frame in which the fire input holds *)
(* and the frame count is a multiple of the fire rate (20 frames, 10 while *)
(* the power-up lasts); no event creates one.                              *)
C15_ArrowOnlyOnFireFrame ==
  [][obs'.fired > 0 =>
       /\ obs'.act = "update"
       /\ Command(World).shootCommand
       /\ engine'.frameCount
            % (IF entities.player.powerUpTimer > 1 THEN FireRatePowered
               ELSE FireRateNormal) = 0]_vars

(* C14: net throw and dash are cooldown-gated.  A frame throws a net only  *)
(* if the net trigger is set and trapCooldown is <= 0 after the frame's    *)
(* decrement, and then stores 120; it starts a dash only if the dash       *)
(* trigger is set and dashTimer is <= 0 after the decrement, and then      *)
(* stores 60; while the hunter lives on, no step lowers either timer by    *)
(* more than one, and only a frame lowers it.  Hence two throws are at     *)
(* least 120 frames apart and two dashes at least 60.                      *)
C14_CooldownGated ==
  [][(entities.player # Null /\ entities'.player # Null /\ obs'.startLevels = 0)
     => /\ obs'.thrown > 0 =>
             /\ obs'.act = "update" /\ obs'.thrown = 1
             /\ Command(World).throwNet
             /\ entities.player.trapCooldown <= 1
             /\ entities'.player.trapCooldown = TRAP_COOLDOWN_FRAMES
        /\ obs'.thrown = 0 =>
             /\ entities'.player.trapCooldown <= entities.player.trapCooldown
             /\ entities'.player.trapCooldown >= entities.player.trapCooldown - 1
        /\ entities'.player.dashTimer > entities.player.dashTimer =>
             /\ obs'.act = "update"
             /\ Command(World).dash
             /\ entities.player.dashTimer <= 1
             /\ entities'.player.dashTimer = DASH_COOLDOWN_FRAMES
             /\ entities'.player.isDashing
        /\ entities'.player.dashTimer >= entities.player.dashTimer - 1
        /\ obs'.act # "update" =>
             /\ entities'.player.dashTimer = entities.player.dashTimer
             /\ entities'.player.trapCooldown = entities.player.trapCooldown]_vars

(* Both keys held through some frames after a throw and a dash: neither    *)
(* starts again.                                                           *)
C14_Witness ==
  /\ obs.act = "update" /\ obs.thrown = 0
  /\ {"KeyT", "ShiftLeft"} \subseteq input.keys
  /\ entities.player # Null
  /\ entities.player.trapCooldown \in 1..(TRAP_COOLDOWN_FRAMES - 2)
  /\ entities.player.dashTimer \in 1..(DASH_COOLDOWN_FRAMES - 2)

(* C16: on a platformer level a frame that begins with the hunter         *)
(* grounded and the jump trigger set gives the hunter the jump impulse     *)
(* (stored with that frame's gravity added, or replaced by the kick of a   *)
(* bite later in the frame) and leaves it not grounded; a frame that       *)
(* begins otherwise never leaves the hunter with the jump impulse.         *)
C16_JumpImpulse ==
  [][(/\ obs'.act = "update" /\ state.status = "PLAYING"
      /\ entities.player # Null /\ ~isTopDownLevel(state.level))
     => IF Command(World).jump /\ entities.player.grounded
        THEN /\ ~entities'.player.grounded
             /\ \/ entities'.player.vy = JUMP_FORCE * 100 + Gravity
                \/ /\ entities'.player.vy = 0 - BiteKick
                   /\ entities'.player.invulnerableTimer = HitInvulnFrames
        ELSE entities'.player.vy # JUMP_FORCE * 100 + Gravity]_vars

(* The hunter has just taken off.                                          *)
C16_Witness ==
  /\ obs.act = "update" /\ entities.player # Null
  /\ ~isTopDownLevel(state.level)
  /\ "Space" \in input.keys
  /\ ~entities.player.grounded
  /\ entities.player.vy = JUMP_FORCE * 100 + Gravity

Inside(px, py, r) ==
  /\ r.x < px /\ px < r.x + r.width
  /\ r.y < py /\ py < r.y + r.height

(* C18: checkCollision(r1, r2) holds exactly when the open rectangles      *)
(* share a point (so not when they only share an edge or a corner), and    *)
(* gives the same answer with the arguments exchanged.                     *)
C18_StrictOverlap ==
  obs.act = "checkCollision" =>
     /\ obs.hit <=> \E px \in 0..(20 * GeomMax) : \E py \in 0..(20 * GeomMax) :
                       Inside(px, py, obs.r1) /\ Inside(px, py, obs.r2)
     /\ obs.back = obs.hit

(* Two rectangles side by side sharing an edge, tested and found apart.    *)
C18_Witness ==
  /\ obs.act = "checkCollision"
  /\ obs.r1.x = obs.r2.x + obs.r2.width
  /\ obs.r1.y = obs.r2.y /\ obs.r1.height = obs.r2.height
  /\ ~obs.hit /\ ~obs.back

(* C19: a frame in which the right stick is active with the vector (0, 0)  *)
(* leaves the hunter's aimAngle as it was.                                 *)
C19_ZeroStickKeepsAim ==
  [][(/\ obs'.act = "update" /\ state.status = "PLAYING"
      /\ entities.player # Null /\ entities'.player # Null
      /\ input.touch.rightStick.active
      /\ input.touch.rightStick.x = 0 /\ input.touch.rightStick.y = 0)
     => entities'.player.aimAngle = entities.player.aimAngle]_vars

---------------------------------------------------------------------------
(* Level starts with a companion: level 3 with its quota met (the door     *)
(* leads on to level 4), and level 4 shortly before an enemy comes in,     *)
(* with a hunter one blow from death who has lives left (respawn) and with *)
(* one who has none (game over, then a new game).                          *)

AtFrame(w, f) == [w EXCEPT !.engine.frameCount = f]

LevelsFrame == FirstFrame + SpawnPeriod(4) \div 2
LevelKeys == {"KeyD", "KeyW"}
Eager(c) ==
  /\ c.side = 0 - 50 /\ c.tier = "SMALL" /\ ~c.pup /\ ~c.meat /\ c.dgo
  /\ c.rmove = {}

InitLevels ==
  Starts({AtFrame(InLevel(3, 3, 5, 100), LevelsFrame),
          AtFrame(InLevel(4, 2, 0, 10), LevelsFrame),
          AtFrame(InLevel(4, 1, 0, 10), LevelsFrame)})

NextLevels ==
  \/ Update(LevelsFrame + FrameWindow, Eager)
  \/ \E k \in LevelKeys : handleKeyDown(k)
  \/ \E k \in LevelKeys : handleKeyUp(k)
  \/ handleTouchStart("whistle")
  \/ Timeout

SpecLevels == InitLevels /\ [][NextLevels]_vars

(* C21: a level start within a game (transition or respawn) keeps an       *)
(* existing companion, the same entity with the same id, only repositioned *)
(* and with state IDLE, no target and aggroTimer 0; the companion is       *)
(* discarded by nothing but initGame (an input outside PLAYING).           *)
C21_CompanionKept ==
  [][entities.dog # Null =>
       IF obs'.act \in {"transition", "respawn"} /\ obs'.startLevels > 0
       THEN /\ entities'.dog # Null
            /\ entities'.dog =
                 [entities.dog EXCEPT !.x = 20, !.y = CANVAS_HEIGHT - 100,
                                      !.vx = 0, !.vy = 0, !.state = "IDLE",
                                      !.target = Null, !.aggroTimer = 0]
       ELSE IF obs'.startLevels > 0
       THEN /\ state.status # "PLAYING"
            /\ obs'.act \in {"keydown", "touchstart", "mousedown"}
            /\ entities'.dog = Null
       ELSE entities'.dog # Null /\ entities'.dog.id = entities.dog.id]_vars

(* A level has just been started by a timeout and the companion of the     *)
(* level before is still there.                                            *)
C21_Witness ==
  /\ obs.act \in {"transition", "respawn"} /\ obs.startLevels > 0
  /\ entities.dog # Null /\ entities.dog.id = 777

---------------------------------------------------------------------------
(* Net and arrow: the hunter throws the net at the first enemy that comes  *)
(* in from the left and shoots at it as well.                              *)

NetKeys == {"KeyT"}
Sturdy(c) == c.side = 0 - 50 /\ c.tier # "MEDIUM" /\ ~c.netFalls /\ ~c.pup

InitNet == Starts({InLevel(1, 3, 0, 100)})

NextNet ==
  \/ Update(FirstFrame + StunWindow, Sturdy)
  \/ \E pt \in Clicks : handleMouseDown(pt)
  \/ handleMouseUp
  \/ \E k \in NetKeys : handleKeyDown(k)
  \/ \E k \in NetKeys : handleKeyUp(k)

SpecNet == InitNet /\ [][NextNet]_vars

(* C22: an enemy's stunTimer changes only by a net strike, which sets it   *)
(* to the stun duration of 180, and by the decrement of 1 per tick, so a   *)
(* netted enemy stays stunned for the full duration unless netted again.   *)
C22_StunOnlyNetOrTick ==
  [][\A i \in 1..Len(entities.enemies) : \A j \in 1..Len(entities'.enemies) :
        entities'.enemies[j].id = entities.enemies[i].id
        => \/ entities'.enemies[j].stunTimer = entities.enemies[i].stunTimer
           \/ /\ entities.enemies[i].stunTimer > 0
              /\ entities'.enemies[j].stunTimer = entities.enemies[i].stunTimer - 1
           \/ entities'.enemies[j].stunTimer = NetStunFrames]_vars

---------------------------------------------------------------------------
(* The end of the companion's aggression on level 4: the hunter, bitten    *)
(* once, stands mid field with the companion at their side; the whistle    *)
(* was blown 298 ticks ago, the enemies that came since are dead, and the  *)
(* next one is about to come in.                                           *)

AggroEnding(w) ==
  [w EXCEPT !.entities.player.x = 400,
            !.entities.dog.x = 400,
            !.entities.dog.aggroTimer = WhistleAggroFrames - 298]

InitAggro ==
  Starts({AtFrame(AggroEnding(InLevel(4, 3, 4, 90)), LevelsFrame + 1)})

NextAggro ==
  \/ Update(LevelsFrame + FrameWindow, FromTheLeft)
  \/ \E k \in Keys : handleKeyDown(k)
  \/ \E k \in Keys : handleKeyUp(k)
  \/ handleTouchStart("whistle")

SpecAggro == InitAggro /\ [][NextAggro]_vars

(* C23: on platformer levels the companion is in CHASE or BRAWL only while *)
(* its aggroTimer is above 0 and its target is a live enemy (in the list,  *)
(* not flagged, health above 0).                                           *)
C23_ChaseOnlyWhileAggro ==
  (/\ state.status = "PLAYING" /\ entities.dog # Null
   /\ ~isTopDownLevel(state.level)
   /\ entities.dog.state \in {"CHASE", "BRAWL"})
  => /\ entities.dog.aggroTimer > 0
     /\ entities.dog.target # Null
     /\ entities.dog.target.kind = "enemy"
     /\ InWorld(World, entities.dog.target)
     /\ ~Deref(World, entities.dog.target).markedForDeletion
     /\ Deref(World, entities.dog.target).health > 0

---------------------------------------------------------------------------
(* The companion's hunt, step by step.                                     *)

(* A tick of the running hunting level that does not leave it.             *)
HuntTick ==
  /\ obs'.act = "update" /\ obs'.nextLevels = 0
  /\ state.status = "PLAYING" /\ state.level = 3
  /\ entities.player # Null /\ entities.dog # Null

---------------------------------------------------------------------------
(* A long flight: the hunter soon walks into the first bush and flushes    *)
(* its rabbit while the companion dawdles; the rabbit runs off to the far  *)
(* corner and stays out of reach while the flee timer runs, the hunter     *)
(* standing still, and comes to the second bush as the timer runs out.     *)

Fleeing == {i \in 1..Len(entities.rabbits) : entities.rabbits[i].state = "FLEE"}

Herded(c) ==
  /\ ~c.dgo
  /\ IF Fleeing = {} THEN engine.frameCount < FirstFrame + HuntWindow
     ELSE input.keys = {}
  /\ c.pto \in {Null, Station(BushSpot(1).x + 10, BushSpot(1).y + 10)}
  /\ c.rmove = {i \in Fleeing : \/ entities.rabbits[i].fleeTimer >= FleeFrames - 1
                                \/ entities.rabbits[i].fleeTimer <= 1}
  /\ c.rto = IF Fleeing = {} THEN Null
             ELSE IF \E i \in Fleeing : entities.rabbits[i].fleeTimer >= FleeFrames - 1
             THEN Station(900, 500)
             ELSE Station(BushSpot(2).x + 10, BushSpot(2).y + 10)

HideKeys == {"KeyD", "KeyW"}

InitHide == Starts({InLevel(3, 3, 0, 100)})

NextHide ==
  \/ Update(FirstFrame + FleeWindow, Herded)
  \/ \E k \in HideKeys : handleKeyDown(k)
  \/ \E k \in HideKeys : handleKeyUp(k)

SpecHide == InitHide /\ [][NextHide]_vars

(* C25: a fleeing rabbit goes back to HIDDEN only while its flee timer has *)
(* not run out (fleeTimer > 0); with the timer run out it hides no more.   *)
C25_HidesOnlyBeforeExpiry ==
  [][\A i \in 1..Len(entities.rabbits) :
        (/\ i <= Len(entities'.rabbits)
         /\ entities'.rabbits[i].id = entities.rabbits[i].id
         /\ entities.rabbits[i].state = "FLEE"
         /\ entities'.rabbits[i].state = "HIDDEN")
        => entities'.rabbits[i].fleeTimer > 0]_vars

(* C26: a rabbit the companion has caught is gone: after every later tick  *)
(* of the hunting level it is not in the rabbits list any more (or is      *)
(* there in state CAUGHT), so it neither moves nor hides nor is found      *)
(* again by the companion.                                                 *)
C26_CaughtRabbitGone ==
  [][HuntTick =>
       \A i \in 1..Len(entities.rabbits) :
          entities.rabbits[i].markedForDeletion
          => \A j \in 1..Len(entities'.rabbits) :
                entities'.rabbits[j].id = entities.rabbits[i].id
                => entities'.rabbits[j].state = "CAUGHT"]_vars

---------------------------------------------------------------------------
(* Healing on level 4: the wounded hunter waits by the companion, whistles *)
(* when the companion is about to heal, walks off mid field and comes      *)
(* back as the companion's aggression ends.  The enemies and crows that    *)
(* come in meanwhile stay at the far right edge.                           *)

HealWindow == 365

HealPlan(c) ==
  /\ c.side \in {0 - 50, CANVAS_WIDTH + 50}
  /\ ((engine.frameCount + 1) % SpawnPeriod(state.level) = 0
      /\ Len(entities.enemies) < EnemyCap)
       => c.side = CANVAS_WIDTH + 50
  /\ c.tier = "SMALL" /\ c.emove = {} /\ c.cmove = {}
  /\ c.pto \in {Null, Station(50, PlayerGroundY), Station(400, PlayerGroundY)}
  /\ "KeyR" \in input.keys
       => entities.dog.healTimer = HealFrames /\ entities.dog.aggroTimer = 0
  /\ "KeyD" \in input.keys
       => entities.dog.aggroTimer = WhistleAggroFrames - 1
  /\ "KeyA" \in input.keys => entities.dog.aggroTimer = 2

HealKeys == {"KeyR", "KeyD", "KeyA"}

InitHeal == Starts({InLevel(4, 3, 0, 90)})

NextHeal ==
  \/ Update(FirstFrame + HealWindow, HealPlan)
  \/ \E k \in HealKeys : handleKeyDown(k)
  \/ \E k \in HealKeys : handleKeyUp(k)

SpecHeal == InitHeal /\ [][NextHeal]_vars

(* A tick of a running platformer level with a companion that does not     *)
(* leave the level.                                                        *)
CompanionTick ==
  /\ obs'.act = "update" /\ obs'.nextLevels = 0
  /\ state.status = "PLAYING" /\ ~isTopDownLevel(state.level)
  /\ entities.player # Null /\ entities.dog # Null

(* C27: on platformer levels the hunter's health is restored by the        *)
(* companion only in a tick that ends with the companion in HEAL, by 5 and *)
(* not above maxHealth, on a frame with frameCount mod 60 = 0; and the     *)
(* companion is in HEAL only when the conditions of healing (within 50 of  *)
(* the hunter, no enemy within 300, hunter wounded) have held in more than *)
(* 60 ticks in a row, this one included.                                   *)
C27_HealOnlyAfterCalm ==
  [][CompanionTick =>
       /\ (obs'.eaten = 0 /\ entities'.player.health > entities.player.health)
          => /\ entities'.dog.state = "HEAL"
             /\ engine'.frameCount % HealFrames = 0
             /\ entities'.player.health
                  = Min(entities.player.maxHealth,
                        entities.player.health + DogHeal)
       /\ entities'.dog.state = "HEAL" => obs'.streak > HealFrames]_vars

---------------------------------------------------------------------------
(* Crows over the first level: the hunter stands at the start or walks, a  *)
(* crow comes in from the right, patrols, dives and returns.               *)

CrowWindow == 8

(* The crows on their way down or up.                                      *)
OnTheWay ==
  {i \in 1..Len(entities.crows) : entities.crows[i].state \in {"DIVE", "RETURN"}}

(* The crows on their way down or up get where their flight leads: each    *)
(* tick of a dive adds the same vy > 0 to y (lines 980-981), each tick of  *)
(* a return takes 4 from it (lines 982 and 984), so the way is not endless.*)
CrowsGo(c) ==
  /\ c.side \in {0 - 50, CANVAS_WIDTH + 50}
  /\ (engine.frameCount + 1) % CrowSpawnFrames = 0 => c.side = CANVAS_WIDTH + 50
  /\ c.tier = "SMALL" /\ c.emove = {} /\ c.crowVx = 2
  /\ OnTheWay \subseteq c.cmove

CrowsLast == CrowSpawnFrames - 1 + CrowWindow

InitCrows == Starts({AtFrame(InLevel(1, 3, 0, 100), CrowSpawnFrames - 1)})

NextCrows ==
  \/ Update(CrowsLast, CrowsGo)
  \/ \E k \in Keys : handleKeyDown(k)
  \/ \E k \in Keys : handleKeyUp(k)

SpecCrows == InitCrows /\ [][NextCrows]_vars

(* The step of a tick, told by the frame counter.  In SpecCrows a tick can *)
(* be taken whenever the counter is below CrowsLast, and only a tick       *)
(* changes the counter.                                                    *)
Ticks ==
  /\ engine.frameCount < CrowsLast
  /\ engine' = [engine EXCEPT !.frameCount = @ + 1]

(* Every animation frame requests the next one (lines 1436-1437): the      *)
(* ticks go on.                                                            *)
SpecCrowsFair == SpecCrows /\ WF_engine(Ticks)

CrowIn(n, st) ==
  \E i \in 1..Len(entities.crows) :
     entities.crows[i].id = n /\ entities.crows[i].state = st

CrowCycle ==
  \A i \in 1..Len(entities.crows) : \A j \in 1..Len(entities'.crows) :
     entities'.crows[j].id = entities.crows[i].id
     => \/ entities'.crows[j].state = entities.crows[i].state
        \/ /\ entities.crows[i].state = "FLY"
           /\ entities'.crows[j].state = "DIVE"
           /\ Abs(entities'.crows[j].x - entities'.player.x) < 100
           /\ entities'.crows[j].y < entities'.player.y
        \/ /\ entities.crows[i].state = "DIVE"
           /\ entities'.crows[j].state = "RETURN"
        \/ /\ entities.crows[i].state = "RETURN"
           /\ entities'.crows[j].state = "FLY"

---------------------------------------------------------------------------
(* The lake level: level 3 of the implementation kept in                   *)
(* src/utils/audio.ts, with ducks on a lake in place of bushes and         *)
(* rabbits.  Its world is carried by the same variables; entities holds    *)
(* player, dog, ducks, arrows and the number of meats dropped.  Duck       *)
(* coordinates and speeds are counted in 1/Sub pixel, so that every step   *)
(* of the flight is exact; the hunter, the companion and the arrows hop    *)
(* between stations as on the other levels.                                *)

LAKE_LEVEL_Y == CANVAS_HEIGHT - 32
Sub == 20
DuckFlightFrames == 300
DuckWidth == 32
DuckHeight == 22
NumDucks == 2
LakeArrows == 1
LakeFirst == 18
LakeWindow == 45
FallFrames == 32
LakePlatforms ==
  << [x |-> 0, y |-> 400, width |-> 250, height |-> 20],
     [x |-> 850, y |-> 400, width |-> 110, height |-> 20] >>
LakeDoor == [x |-> CANVAS_WIDTH - 80, y |-> CANVAS_HEIGHT - 32 - 64,
             width |-> 40, height |-> 64]
LakePlayerY == CANVAS_HEIGHT - 32 - 48
LakeDogY == CANVAS_HEIGHT - 32 - 24
LakeStations == {50, 480, CANVAS_WIDTH - 80}

(* spawnDucks: a duck swims at 300 + random * (CANVAS_WIDTH - 400); the    *)
(* model puts the ducks side by side below the platform of the right       *)
(* bank, close enough for one arrow to strike two of them.                 *)
NewDuck(i) ==
  [id |-> i, x |-> (IF i % 2 = 1 THEN 840 ELSE 850) * Sub,
   y |-> LAKE_LEVEL_Y * Sub, width |-> DuckWidth, height |-> DuckHeight,
   vx |-> 0, vy |-> 0, state |-> "SWIM", flightTimer |-> 0,
   markedForDeletion |-> FALSE]

spawnDucks(count) == [i \in 1..count |-> NewDuck(i)]

(* The rectangle of a duck in whole pixels, as checkCollision reads it.    *)
DuckBox(d) ==
  [x |-> d.x \div Sub, y |-> d.y \div Sub, width |-> d.width, height |-> d.height]

(* checkPlatformCollisionsSimple for a duck: its feet are within 10 px     *)
(* below the top of a platform.                                            *)
DuckOnPlatform(d) ==
  LET feetX == d.x + (d.width * Sub) \div 2
      feetY == d.y + d.height * Sub
  IN \E k \in 1..Len(LakePlatforms) :
        /\ feetX > LakePlatforms[k].x * Sub
        /\ feetX < (LakePlatforms[k].x + LakePlatforms[k].width) * Sub
        /\ feetY >= LakePlatforms[k].y * Sub
        /\ feetY <= (LakePlatforms[k].y + 10) * Sub

Clamp(v, lo, hi) == IF v < lo THEN lo ELSE IF v > hi THEN hi ELSE v

(* The SWIM branch of updateDucks.  c.bob stands for sin(frame * 0.05) * 2 *)
(* and c.lift for the random take-off speed -1.5 - random * 1.5.           *)
DuckSwim(d, whistle, c) ==
  LET x1 == d.x + d.vx
      d1 == [d EXCEPT !.y = (LAKE_LEVEL_Y - 12) * Sub + c.bob,
                      !.x = x1,
                      !.vx = IF x1 < 0 \/ x1 > (CANVAS_WIDTH - d.width) * Sub
                             THEN 0 - @ ELSE @]
  IN IF whistle
     THEN [d1 EXCEPT !.state = "FLY", !.flightTimer = DuckFlightFrames,
                     !.vy = c.lift, !.vx = 0]
     ELSE d1

(* The FLY branch: while flightTimer runs the duck floats under the sky    *)
(* (c.flut is the random (random - 0.5) * 0.1 added to vy), afterwards it  *)
(* glides down to the water and swims again.                               *)
DuckFly(d, c) ==
  LET x1 == d.x + d.vx
      y1 == d.y + d.vy
      vy1 == Clamp(d.vy + c.flut, 0 - (3 * Sub) \div 2, (3 * Sub) \div 2)
      vy2 == IF y1 < 50 * Sub THEN vy1 + 1 ELSE vy1
      vy3 == IF y1 > 200 * Sub THEN vy2 - 1 ELSE vy2
      vx1 == Clamp(d.vx, 0 - 2 * Sub, 2 * Sub)
      vx2 == IF x1 < 0 THEN vx1 + 2 ELSE vx1
      vx3 == IF x1 > CANVAS_WIDTH * Sub THEN vx2 - 2 ELSE vx2
      waterTargetY == (LAKE_LEVEL_Y - 14) * Sub
  IN IF d.flightTimer > 0
     THEN [d EXCEPT !.x = x1, !.y = y1, !.flightTimer = @ - 1,
                    !.vx = vx3, !.vy = vy3]
     ELSE IF y1 < waterTargetY
          THEN [d EXCEPT !.x = x1, !.y = y1, !.vx = (@ * 19) \div 20,
                         !.vy = Sub]
          ELSE [d EXCEPT !.x = x1, !.y = waterTargetY, !.vy = 0, !.vx = 0,
                         !.state = "SWIM"]

(* The FALL branch: gravity, and death on the ground or on a platform.     *)
DuckFall(d) ==
  LET vy1 == d.vy + Sub \div 2
      d1 == [d EXCEPT !.vy = vy1, !.x = @ + d.vx, !.y = @ + vy1]
  IN IF d1.y >= (LAKE_LEVEL_Y - 10) * Sub \/ DuckOnPlatform(d1)
     THEN [d1 EXCEPT !.state = "DEAD",
                     !.y = Min(@, (LAKE_LEVEL_Y - 10) * Sub),
                     !.vx = 0, !.vy = 0]
     ELSE d1

(* One iteration of the forEach of updateDucks (lines 511-590).            *)
DuckStep(d, whistle, c) ==
  IF d.state = "SWIM" THEN DuckSwim(d, whistle, c)
  ELSE IF d.state = "FLY" THEN DuckFly(d, c)
  ELSE IF d.state = "FALL" THEN DuckFall(d)
  ELSE d

(* updateDucks: every duck steps, then the collected ducks are removed.    *)
(* obs.died lists the ducks that ended a fall in this frame.               *)
updateDucks(w, whistle, c) ==
  LET ds == w.entities.ducks
      stepped == [i \in 1..Len(ds) |-> DuckStep(ds[i], whistle, c)]
      died == {ds[i].id : i \in {j \in 1..Len(ds) :
                  ds[j].state = "FALL" /\ stepped[j].state = "DEAD"}}
  IN [w EXCEPT !.entities.ducks = Purge(stepped), !.obs.died = died]

(* ArrowDuck striking a duck in whatever state it is.                      *)
mutant_ArrowDuck(w, j, i) ==
  LET a == w.entities.arrows[j]
      d == w.entities.ducks[i]
  IN IF checkCollision(a, DuckBox(d))
     THEN [w EXCEPT !.entities.ducks[i].state = "FALL",
                    !.entities.ducks[i].vx = (a.vx * Sub) \div 5,
                    !.entities.ducks[i].vy = 0 - 2 * Sub,
                    !.entities.arrows[j].markedForDeletion = TRUE,
                    !.obs.struck = Append(@, [id |-> d.id, from |-> d.state])]
     ELSE w

(* Lines 926-936: arrow j against duck i.  Only a flying duck is struck;   *)
(* obs.struck keeps the duck and the state it was struck in.               *)
ArrowDuck(w, j, i) ==
  LET a == w.entities.arrows[j]
      d == w.entities.ducks[i]
  IN IF d.state = "FLY" /\ checkCollision(a, DuckBox(d))
     THEN [w EXCEPT !.entities.ducks[i].state = "FALL",
                    !.entities.ducks[i].vx = (a.vx * Sub) \div 5,
                    !.entities.ducks[i].vy = 0 - 2 * Sub,
                    !.entities.arrows[j].markedForDeletion = TRUE,
                    !.obs.struck = Append(@, [id |-> d.id, from |-> d.state])]
     ELSE w

RECURSIVE ArrowDucks(_, _, _)
ArrowDucks(w, j, i) ==
  IF i > Len(w.entities.ducks) THEN w
  ELSE ArrowDucks(ArrowDuck(w, j, i), j, i + 1)

(* One iteration of the forEach of updateArrows on the lake.  The flight   *)
(* of the arrow is a hop: c.aim is the duck it has flown onto (0: none),   *)
(* c.lands tells that it has come down on the ground or on a platform.     *)
LakeArrowStep(w, j, c) ==
  LET a0 == w.entities.arrows[j]
      a1 == [a0 EXCEPT !.lifeTime = @ - 1,
                       !.markedForDeletion =
                          IF a0.lifeTime - 1 <= 0 \/ c.lands THEN TRUE ELSE @]
      a2 == IF c.aim \in 1..Len(w.entities.ducks)
            THEN [a1 EXCEPT !.x = DuckBox(w.entities.ducks[c.aim]).x,
                            !.y = DuckBox(w.entities.ducks[c.aim]).y]
            ELSE a1
  IN ArrowDucks([w EXCEPT !.entities.arrows[j] = a2], j, 1)

RECURSIVE LakeArrowLoop(_, _, _)
LakeArrowLoop(w, j, c) ==
  IF j > Len(w.entities.arrows) THEN w
  ELSE LakeArrowLoop(LakeArrowStep(w, j, c), j + 1, c)

updateArrowsLake(w, c) ==
  [LakeArrowLoop(w, 1, c) EXCEPT !.entities.arrows = Purge(@)]

(* fireArrow of the lake implementation (lines 1027-1044); c.avx is the    *)
(* horizontal speed cos(aimAngle) * ARROW_SPEED of the arrow.              *)
fireArrowLake(w, c) ==
  [w EXCEPT !.entities.arrows =
      Append(@, [id |-> Len(@) + 1,
                 x |-> w.entities.player.x + 12, y |-> w.entities.player.y + 15,
                 width |-> 10, height |-> 4, vx |-> c.avx,
                 lifeTime |-> ArrowLifeTime, markedForDeletion |-> FALSE])]

(* The companion runs towards x; c.dgo tells whether it gets there in      *)
(* this frame.                                                             *)
DogRuns(dog, x, c) == IF c.dgo THEN [dog EXCEPT !.x = x] ELSE dog

(* updateDog on the lake, branch 1 (lines 624-653): a carried duck is      *)
(* brought to the hunter and dropped as meat within 40 px.                 *)
DogCarries(w, i, c) ==
  LET dog == w.entities.dog
      player == w.entities.player
      dx == player.x - dog.x
      w1 == [w EXCEPT !.entities.dog.state = "RETRIEVE",
                      !.entities.ducks[i].x =
                         (dog.x + (IF dx > 0 THEN 10 ELSE 0 - 10)) * Sub,
                      !.entities.ducks[i].y = (dog.y + 4) * Sub]
      w2 == IF Abs(dx) < 40
            THEN [w1 EXCEPT !.entities.meats = @ + 1,
                            !.entities.ducks[i].markedForDeletion = TRUE,
                            !.entities.dog.state = "IDLE",
                            !.obs.delivered = Append(@, w.entities.ducks[i].id)]
            ELSE w1
  IN [w2 EXCEPT !.entities.dog = DogRuns(@, player.x, c)]

(* Branch 2 (lines 656-666): the companion fetches a dead duck.            *)
DogFetches(w, i, c) ==
  LET dog == w.entities.dog
      duck == DuckBox(w.entities.ducks[i])
      dx == duck.x - dog.x
      w1 == [w EXCEPT !.entities.dog.state = "RETRIEVE"]
      w2 == IF Abs(dx) < 10 /\ Abs(dog.y - duck.y) < 20
            THEN [w1 EXCEPT !.entities.ducks[i].state = "CARRIED",
                            !.obs.fetched = Append(@, w.entities.ducks[i].id)]
            ELSE w1
  IN [w2 EXCEPT !.entities.dog = DogRuns(@, duck.x, c)]

(* Branch 3 (lines 668-694): the whistle sends the companion to the        *)
(* water's edge, otherwise it follows the hunter.                          *)
DogScares(w, whistle, c) ==
  LET dog == w.entities.dog
      player == w.entities.player
      aggro == IF whistle THEN 100 ELSE dog.aggroTimer
      dx == (player.x - 30) - dog.x
  IN IF aggro > 0
     THEN [w EXCEPT !.entities.dog =
             DogRuns([dog EXCEPT !.state = "CHASE", !.aggroTimer = aggro - 1],
                     CANVAS_WIDTH \div 2, c)]
     ELSE IF Abs(dx) > 30
          THEN [w EXCEPT !.entities.dog =
                  DogRuns([dog EXCEPT !.state = "FOLLOW", !.aggroTimer = aggro],
                          player.x - 30, c)]
          ELSE [w EXCEPT !.entities.dog.state = "IDLE",
                         !.entities.dog.aggroTimer = aggro]

(* updateDog, the level-3 part of the lake implementation.                 *)
updateDogLake(w, whistle, c) ==
  LET carried == FindFirst(w.entities.ducks, LAMBDA d : d.state = "CARRIED")
      dead == FindFirst(w.entities.ducks, LAMBDA d : d.state = "DEAD")
  IN IF carried # 0 THEN DogCarries(w, carried, c)
     ELSE IF dead # 0 THEN DogFetches(w, dead, c)
     ELSE DogScares(w, whistle, c)

(* The entity updates of one frame on the lake, in the order of update()   *)
(* (lines 501-507): ducks, arrows, companion.                              *)
LakeEntities(w, whistle, c) ==
  updateDogLake(updateArrowsLake(updateDucks(w, whistle, c), c), whistle, c)

LakeShoots(w, c) ==
  IF w.input.mouse.leftDown /\ w.engine.frameCount % FireRateNormal = 0
  THEN fireArrowLake(w, c) ELSE w

(* The hunter of the lake walks by hops: c.pto is where the held key       *)
(* takes the hunter in this frame.                                         *)
LakeWalks(w, c) ==
  LET keys == w.input.keys
      dx == IF "KeyD" \in keys THEN 1 ELSE IF "KeyA" \in keys THEN 0 - 1 ELSE 0
  IN [w EXCEPT !.entities.player.x =
        IF dx # 0 /\ Sign(c.pto - @) = dx THEN c.pto ELSE @]

LakeAfterWalk(w, c) ==
  IF checkCollision(w.entities.player, LakeDoor)
  THEN [w EXCEPT !.state.status = "LEVEL_TRANSITION"]
  ELSE LakeEntities(LakeShoots(w, c), "KeyR" \in w.input.keys, c)

(* update() of the lake implementation (lines 401-508) on level 3.         *)
updateLake(w, c) ==
  IF w.state.status # "PLAYING"
  THEN [w EXCEPT !.engine.frameCount = @ + 1]
  ELSE LakeAfterWalk(LakeWalks([w EXCEPT !.engine.frameCount = @ + 1], c), c)

(* The draws of one frame on the lake.                                     *)
LakeChoices(w) ==
  LET ds == w.entities.ducks
      playing == w.state.status = "PLAYING"
      swims == playing /\ \E i \in 1..Len(ds) : ds[i].state = "SWIM"
      floats == playing /\ \E i \in 1..Len(ds) :
                   ds[i].state = "FLY" /\ ds[i].flightTimer > 0
      fires == playing /\ w.input.mouse.leftDown
               /\ (w.engine.frameCount + 1) % FireRateNormal = 0
      flying == playing /\ (fires \/ w.entities.arrows # <<>>)
      walks == playing /\ w.input.keys \cap {"KeyA", "KeyD"} # {}
  IN [bob : IF swims THEN {0 - 2 * Sub, 0, 2 * Sub} ELSE {0},
      lift : IF swims /\ "KeyR" \in w.input.keys
             THEN {0 - 2 * Sub, 0 - (3 * Sub) \div 2} ELSE {0 - 2 * Sub},
      flut : IF floats THEN {0 - 1, 0} ELSE {0},
      avx : IF fires THEN {0 - 15, 0, 15} ELSE {0},
      aim : IF flying THEN 0..Len(ds) ELSE {0},
      lands : IF flying THEN BOOLEAN ELSE {FALSE},
      dgo : IF playing THEN BOOLEAN ELSE {FALSE},
      pto : IF walks THEN LakeStations ELSE {0}]

NoLakeObs(act) ==
  [act |-> act, struck |-> <<>>, died |-> {}, fetched |-> <<>>,
   delivered |-> <<>>, streak |-> 0]

(* Level 3 of the lake implementation shortly after startLevel, the        *)
(* hunter and the companion (released on an earlier level) landed on the   *)
(* bank.                                                                   *)
LakeStarted ==
  [state |-> [status |-> "PLAYING", level |-> 3],
   entities |-> [player |-> [x |-> 50, y |-> LakePlayerY,
                             width |-> 24, height |-> 48],
                 dog |-> [x |-> 20, y |-> LakeDogY,
                          state |-> "IDLE", aggroTimer |-> 0],
                 ducks |-> spawnDucks(NumDucks), arrows |-> <<>>, meats |-> 0],
   input |-> [keys |-> {}, mouse |-> [x |-> 0, y |-> 0, leftDown |-> FALSE]],
   engine |-> [frameCount |-> 0],
   timers |-> <<>>,
   obs |-> NoLakeObs("init")]

(* onKeyDown, onKeyUp, onMouseDown and onMouseUp of the lake               *)
(* implementation while a level is played.                                 *)
LakeBegan(act) == [World EXCEPT !.obs = NoLakeObs(act)]

onKeyDown(code) ==
  /\ code \notin input.keys
  /\ Becomes([LakeBegan("keydown") EXCEPT !.input.keys = @ \cup {code}])

onKeyUp(code) ==
  /\ code \in input.keys
  /\ Becomes([LakeBegan("keyup") EXCEPT !.input.keys = @ \ {code}])

onMouseDown ==
  /\ ~input.mouse.leftDown
  /\ Becomes([LakeBegan("mousedown") EXCEPT !.input.mouse.leftDown = TRUE])

onMouseUp ==
  /\ input.mouse.leftDown
  /\ Becomes([LakeBegan("mouseup") EXCEPT !.input.mouse.leftDown = FALSE])

(* loop: update() of one animation frame of the lake, up to frame last.    *)
LakeUpdate(last, Only(_)) ==
  /\ engine.frameCount < last
  /\ \E c \in LakeChoices(World) :
        /\ Only(c)
        /\ Len(updateLake(LakeBegan("update"), c).entities.arrows) <= LakeArrows
        /\ Becomes(updateLake(LakeBegan("update"), c))

(* Moments of the lake level: a frame without wind, water movement or      *)
(* input, n such frames, and the ducks sent up by one whistle.             *)
LakeCalm ==
  [bob |-> 0, lift |-> 0 - 2 * Sub, flut |-> 0, avx |-> 0, aim |-> 0,
   lands |-> FALSE, dgo |-> FALSE, pto |-> 0]

RECURSIVE LakeAfter(_, _)
LakeAfter(w, n) ==
  IF n = 0 \/ w.state.status # "PLAYING" THEN w
  ELSE IF n = 1 THEN updateLake(w, LakeCalm)
  ELSE LakeAfter(LakeAfter(w, n \div 2), n - n \div 2)

Whistled ==
  [LakeAfter([LakeStarted EXCEPT !.input.keys = {"KeyR"}], 1)
     EXCEPT !.input.keys = {}]

LakeMoment(w) == [AtFrame(w, LakeFirst) EXCEPT !.obs = NoLakeObs("init")]

(* SpecDucks: the lake from three moments (ducks swimming, ducks on the    *)
(* rise RiseFrames after a whistle, ducks gliding down to the water        *)
(* GlideFrames after it), the hunter whistling, walking and shooting.      *)
RiseFrames == 100
GlideFrames == 750
LakeLast == LakeFirst + LakeWindow
LakeKeys == {"KeyR", "KeyD"}
Still(c) == c.bob = 0 /\ c.flut = 0 /\ c.lift = 0 - 2 * Sub

(* The hunter whistles in the first frame only, holds the mouse button     *)
(* only in a frame that shoots, and walks only while a duck is carried;    *)
(* an arrow strikes or comes down within ArrowFrames frames, and the       *)
(* companion is as fast as a frame.                                        *)
ArrowFrames == 2
LakePlan(c) ==
  /\ Still(c)
  /\ "KeyR" \in input.keys => engine.frameCount = LakeFirst
  /\ input.mouse.leftDown => (engine.frameCount + 1) % FireRateNormal = 0
  /\ "KeyD" \in input.keys =>
        \E i \in 1..Len(entities.ducks) : entities.ducks[i].state = "CARRIED"
  /\ \A j \in 1..Len(entities.arrows) :
        entities.arrows[j].lifeTime <= ArrowLifeTime - ArrowFrames => c.lands
  /\ c.dgo

InitDucks ==
  Starts({LakeMoment(LakeStarted), LakeMoment(LakeAfter(Whistled, RiseFrames)),
          LakeMoment(LakeAfter(Whistled, GlideFrames))})

(* When the hunter of SpecDucks presses a key or the mouse button.          *)
Timely(code) ==
  IF code = "KeyR" THEN engine.frameCount = LakeFirst
  ELSE IF code = "KeyD"
       THEN \E i \in 1..Len(entities.ducks) : entities.ducks[i].state = "CARRIED"
       ELSE (engine.frameCount + 1) % FireRateNormal = 0

NextDucks ==
  \/ LakeUpdate(LakeLast, LakePlan)
  \/ \E code \in LakeKeys : Timely(code) /\ onKeyDown(code)
  \/ \E code \in LakeKeys : onKeyUp(code)
  \/ Timely("mouse") /\ onMouseDown
  \/ onMouseUp

SpecDucks == InitDucks /\ [][NextDucks]_vars


(* The frame loop of the lake keeps running.                               *)
LakeTicks ==
  /\ engine.frameCount < LakeLast
  /\ engine' = [engine EXCEPT !.frameCount = @ + 1]

SpecDucksFair == SpecDucks /\ WF_engine(LakeTicks)

DuckIn(n, st) ==
  \E i \in 1..Len(entities.ducks) :
     entities.ducks[i].id = n /\ entities.ducks[i].state = st

Struck(o) == {o.struck[j] : j \in 1..Len(o.struck)}

(* Every duck over one frame of the lake: d is the duck before the frame,  *)
(* k its place in the list after it (0: the duck is gone).                 *)
DuckCycle ==
  (obs'.act = "update" /\ state.status = "PLAYING") =>
    /\ \A s \in Struck(obs') : s.from = "FLY"
    /\ Cardinality({k \in 1..Len(entities'.ducks) :
                      entities'.ducks[k].state = "CARRIED"}) <= 1
    /\ \A i \in 1..Len(entities.ducks) :
          LET d == entities.ducks[i]
              k == IndexOfId(entities'.ducks, d.id)
          IN IF k = 0 THEN d.state = "CARRIED" /\ d.markedForDeletion
             ELSE /\ entities'.ducks[k].state = "FALL" /\ d.state # "FALL" =>
                       /\ \/ d.state = "FLY"
                          \/ (d.state = "SWIM" /\ "KeyR" \in input.keys)
                       /\ \E s \in Struck(obs') : s.id = d.id
                  /\ d.state # "FALL" /\ d.state # "FLY"
                     /\ ~(d.state = "SWIM" /\ "KeyR" \in input.keys) =>
                       \A s \in Struck(obs') : s.id # d.id
                  /\ d.state = "FALL" =>
                       \/ entities'.ducks[k].state = "FALL"
                       \/ /\ d.id \in obs'.died
                          /\ entities'.ducks[k].state \in {"DEAD", "CARRIED"}
                  /\ d.state = "DEAD" =>
                       entities'.ducks[k].state \in {"DEAD", "CARRIED"}
                  /\ d.state = "CARRIED" =>
                       entities'.ducks[k].state = "CARRIED"
                  /\ entities'.ducks[k].markedForDeletion /\ ~d.markedForDeletion =>
                       /\ d.state = "CARRIED"
                       /\ obs'.delivered = <<d.id>>
                       /\ Abs(entities'.player.x - entities.dog.x) < 40

(* C29: on the lake a duck starts to FALL only when an arrow strikes it    *)
(* in FLY (an arrow leaves a duck in any other state alone); a falling     *)
(* duck keeps falling until it is DEAD on the ground or on a platform,     *)
(* and while the level is played and the frames go on every fall that has  *)
(* FallFrames frames left ends so; a DEAD duck changes only to CARRIED; a   *)
(* CARRIED duck stays CARRIED and leaves the list only after its delivery  *)
(* within 40 px of the hunter; never are two ducks CARRIED.                *)
C29_DuckCycle ==
  /\ [][DuckCycle]_vars
  /\ \A n \in 1..NumDucks :
        (DuckIn(n, "FALL") /\ engine.frameCount <= LakeLast - FallFrames)
           ~> \/ obs.act = "update" /\ n \in obs.died
              \/ state.status # "PLAYING"

(* A duck has been delivered while another lies dead on the bank.          *)
C29_Witness ==
  /\ obs.act = "update" /\ obs.delivered # <<>>
  /\ \E i \in 1..Len(entities.ducks) : entities.ducks[i].state = "DEAD"


---------------------------------------------------------------------------
(* The companion's choice of a target                                      *)

(* What the companion could take as a target of kind k when it decides in  *)
(* a frame: hostile creatures as the frame's earlier updates leave them,   *)
(* rabbits and bushes as the frame finds them (they are updated after the  *)
(* companion).                                                             *)
Candidates(k) ==
  LET dog == entities.dog IN
  CASE k = "enemy" ->
         {e \in {entities'.enemies[i] : i \in 1..Len(entities'.enemies)} :
            Eligible(dog, e)}
    [] k = "rabbit" ->
         {r \in {entities.rabbits[i] : i \in 1..Len(entities.rabbits)} :
            r.state = "FLEE" /\ ~r.isHidden}
    [] k = "bush" ->
         {b \in {entities.bushes[i] : i \in 1..Len(entities.bushes)} :
            DistLT(b.x, b.y, dog.x, dog.y, 400) /\ HasHiddenRabbit(World, b)}
    [] OTHER -> {}

(* Every target newly taken in the frame was nearest to the companion      *)
(* among the candidates of its kind.                                       *)
TakesNearest ==
  (obs'.act = "update" /\ state.status = "PLAYING" /\ entities.dog # Null) =>
    \A n \in 1..Len(obs'.picks) :
       LET t == obs'.picks[n]
           dog == entities.dog
       IN Ref(t.kind, t.id) # dog.target =>
            \A a \in Candidates(t.kind) : \A b \in Candidates(t.kind) :
               a.id = t.id =>
                 DistSq(a.x, a.y, dog.x, dog.y) <= DistSq(b.x, b.y, dog.x, dog.y)


(* SpecPack: level 3 with the hunter flushing the rabbits themselves: they *)
(* walk to the second bush, then to the first one, a freshly flushed       *)
(* rabbit runs to the far corner of the field, and the companion is as     *)
(* fast as a frame.                                                        *)
PackWindow == 6
PackKeys == {"KeyA", "KeyD", "KeyW"}
Pack(c) ==
  /\ c.dgo
  /\ c.pto \in {Null} \cup
        {Station(BushSpot(i).x + 10, BushSpot(i).y + 10) : i \in 1..NumBushes}
  /\ c.rmove = {i \in Fleeing : entities.rabbits[i].fleeTimer >= FleeFrames - 1}
  /\ c.rto \in {Null, Station(900, 500)}

InitPack == Starts({InLevel(3, 3, 0, 100)})

NextPack ==
  \/ Update(FirstFrame + PackWindow, Pack)
  \/ \E k \in PackKeys : handleKeyDown(k)
  \/ \E k \in PackKeys : handleKeyUp(k)

SpecPack == InitPack /\ [][NextPack]_vars

(* C30: whenever the companion takes a new target among several eligible   *)
(* candidates it takes the nearest one by Euclidean distance: the nearest  *)
(* unstunned, unflagged hostile creature within 600 on a platformer level, *)
(* the nearest bush within 400 sheltering a hidden rabbit and the nearest  *)
(* fleeing rabbit on level 3.                                              *)
C30_NearestTarget == [][TakesNearest]_vars


---------------------------------------------------------------------------
(* The hunter's physics to the hundredth of a pixel.  Elsewhere the hunter *)
(* hops between stations; here a body                                      *)
(* [x, y, vx, vy, width, height, isDashing, dashTimer, invulnerableTimer,  *)
(* grounded] carries positions and speeds in hundredths, and products with *)
(* 0.85 are cut to the hundredth (Decay).                                  *)

Px == 100
DASH_SPEED == 15
MAX_SPEED == 5
(* 3.5 and 0.8 pixels, in hundredths.                                      *)
RPG_MOVEMENT_SPEED == 350
MOVEMENT_SPEED == 80

Bound(v, lo, hi) == IF v < lo THEN lo ELSE IF v > hi THEN hi ELSE v

(* updateRPGPhysics, lines 514-523: the dash timer and the start of a      *)
(* dash.                                                                   *)
DashRPG(b, dx, dy, dash) ==
  LET t == IF b.dashTimer > 0 THEN b.dashTimer - 1 ELSE b.dashTimer IN
  IF dash /\ t <= 0 /\ (dx # 0 \/ dy # 0)
  THEN [b EXCEPT !.isDashing = TRUE, !.dashTimer = DASH_COOLDOWN_FRAMES,
                 !.vx = dx * DASH_SPEED * Px, !.vy = dy * DASH_SPEED * Px]
  ELSE [b EXCEPT !.dashTimer = t]

(* A dash that the keys steer.                                             *)
mutant_SpeedRPG(b, dx, dy) ==
  IF b.isDashing
  THEN [b EXCEPT !.vx = Decay(@) + dx * RPG_MOVEMENT_SPEED,
                 !.vy = Decay(@) + dy * RPG_MOVEMENT_SPEED,
                 !.isDashing = ~(Abs(Decay(b.vx)) < RPG_MOVEMENT_SPEED
                                 /\ Abs(Decay(b.vy)) < RPG_MOVEMENT_SPEED)]
  ELSE [b EXCEPT !.vx = dx * RPG_MOVEMENT_SPEED, !.vy = dy * RPG_MOVEMENT_SPEED]

(* Lines 525-532: the dash decays and ends, or the keys set the speed.     *)
SpeedRPG(b, dx, dy) ==
  IF b.isDashing
  THEN [b EXCEPT !.vx = Decay(@), !.vy = Decay(@),
                 !.isDashing = ~(Abs(Decay(b.vx)) < RPG_MOVEMENT_SPEED
                                 /\ Abs(Decay(b.vy)) < RPG_MOVEMENT_SPEED)]
  ELSE [b EXCEPT !.vx = dx * RPG_MOVEMENT_SPEED, !.vy = dy * RPG_MOVEMENT_SPEED]

(* Lines 534-535 and 543-546: the move and the four walls.                 *)
WallsRPG(b, dx) ==
  [b EXCEPT !.facingRight = IF dx # 0 THEN dx > 0 ELSE @,
            !.x = Bound(@ + b.vx, 0, (CANVAS_WIDTH - b.width) * Px),
            !.y = Bound(@ + b.vy, 0, (CANVAS_HEIGHT - b.height) * Px)]

StepRPG(b, dx, dy, dash) ==
  WallsRPG(SpeedRPG(DashRPG(b, dx, dy, dash), dx, dy), dx)

(* updatePlatformerPhysics, lines 550-563: the timers and the start of a   *)
(* dash.                                                                   *)
DashPlatformer(b, dx, dash) ==
  LET t == IF b.dashTimer > 0 THEN b.dashTimer - 1 ELSE b.dashTimer
      i == IF b.invulnerableTimer > 0 THEN b.invulnerableTimer - 1
           ELSE b.invulnerableTimer
  IN IF dash /\ t <= 0
     THEN [b EXCEPT !.isDashing = TRUE, !.dashTimer = DASH_COOLDOWN_FRAMES,
                    !.invulnerableTimer = DashInvulnFrames,
                    !.vx = (IF dx # 0 THEN dx
                            ELSE IF b.facingRight THEN 1 ELSE 0 - 1)
                           * DASH_SPEED * Px]
     ELSE [b EXCEPT !.dashTimer = t, !.invulnerableTimer = i]

(* Lines 567-573: the dash decays and ends, or the keys push against the   *)
(* friction.                                                               *)
SpeedPlatformer(b, dx) ==
  IF b.isDashing
  THEN [b EXCEPT !.vx = Decay(@),
                 !.isDashing = ~(Abs(Decay(b.vx)) < MAX_SPEED * Px)]
  ELSE [b EXCEPT !.vx = Bound(Decay(@ + dx * MOVEMENT_SPEED),
                              0 - MAX_SPEED * Px, MAX_SPEED * Px)]

(* Lines 575-584: the jump, gravity and the move.                          *)
MoveBody(b, jump) ==
  LET vy0 == IF jump /\ b.grounded THEN JUMP_FORCE * Px ELSE b.vy
  IN [b EXCEPT !.vy = vy0 + Gravity,
               !.grounded = IF jump /\ b.grounded THEN FALSE ELSE @,
               !.x = @ + b.vx, !.y = @ + vy0 + Gravity,
               !.facingRight = FacesRight(b.aimAngle)]

(* The body of the forEach of checkPlatformCollisions (lines 891-901).     *)
LandBody(b, pl) ==
  IF /\ b.x < (pl.x + pl.width) * Px
     /\ b.x + b.width * Px > pl.x * Px
     /\ b.y + b.height * Px > pl.y * Px
     /\ b.y + b.height * Px < (pl.y + pl.height + 10) * Px
     /\ b.vy >= 0
  THEN [b EXCEPT !.grounded = TRUE, !.vy = 0, !.y = (pl.y - b.height) * Px]
  ELSE b

RECURSIVE LandBodyLoop(_, _, _)
LandBodyLoop(b, platforms, k) ==
  IF k > Len(platforms) THEN b
  ELSE LandBodyLoop(LandBody(b, platforms[k]), platforms, k + 1)

(* The floor and the left wall only.                                       *)
mutant_FloorAndWalls(b) ==
  LET onFloor == b.y + b.height * Px > FloorY * Px IN
  [b EXCEPT !.y = IF onFloor THEN (FloorY - b.height) * Px ELSE @,
            !.vy = IF onFloor THEN 0 ELSE @,
            !.grounded = IF onFloor THEN TRUE ELSE @,
            !.x = IF @ < 0 THEN 0 ELSE @]

(* Lines 589-598: the floor and the side walls.                            *)
FloorAndWalls(b) ==
  LET onFloor == b.y + b.height * Px > FloorY * Px IN
  [b EXCEPT !.y = IF onFloor THEN (FloorY - b.height) * Px ELSE @,
            !.vy = IF onFloor THEN 0 ELSE @,
            !.grounded = IF onFloor THEN TRUE ELSE @,
            !.x = Bound(@, 0, (CANVAS_WIDTH - b.width) * Px)]

StepPlatformer(b, dx, jump, dash, platforms) ==
  FloorAndWalls(LandBodyLoop([MoveBody(SpeedPlatformer(DashPlatformer(b, dx, dash), dx),
                                        jump) EXCEPT !.grounded = FALSE],
                             platforms, 1))

(* The wolf's bite (line 963) as far as it moves the hunter: the health,   *)
(* the sixty frames of invulnerability and the kick away from the wolf,    *)
(* which stands on the side away.                                          *)
Bitten(b, away) ==
  IF away # 0 /\ b.invulnerableTimer <= 0 /\ b.health > WolfDamage
  THEN [b EXCEPT !.health = @ - WolfDamage,
                 !.invulnerableTimer = HitInvulnFrames,
                 !.vx = away * 10 * Px, !.vy = (0 - 5) * Px]
  ELSE b

(* The hunter of one frame of update: the command from the keys, the       *)
(* physics of the level's mode, and on a platformer level a wolf that may  *)
(* bite.                                                                   *)
updateBody(w, away) ==
  LET cmd == Command(w)
      b == w.entities.player
      topDown == isTopDownLevel(w.state.level)
  IN [w EXCEPT
        !.engine.frameCount = @ + 1,
        !.entities.player =
           IF topDown THEN StepRPG(b, cmd.dx, cmd.dy, cmd.dash)
           ELSE Bitten(StepPlatformer(b, cmd.dx, cmd.jump, cmd.dash,
                                      w.entities.platforms), away)]

ArenaWindow == 10
ArenaKeys == {"KeyA", "KeyD", "KeyW", "KeyS", "Space", "ShiftLeft"}

(* The hunter in exact coordinates at the place (px, py), in pixels.       *)
Placed(w, px, py, aim) ==
  [w EXCEPT !.entities.player.x = px * Px, !.entities.player.y = py * Px,
            !.entities.player.aimAngle = aim,
            !.entities.player.facingRight = FacesRight(aim)]

(* Near the walls: on the ground of level 1 by either wall, and in two     *)
(* opposite corners of the meadow of level 3.                              *)
ArenaPlaces ==
  {Placed(InLevel(1, 3, 0, 100), px, PlayerGroundY, aim) :
      px \in {3, CANVAS_WIDTH - 30}, aim \in {<<1, 0>>, <<0 - 1, 0>>}}
  \cup {Placed(InLevel(3, 3, 0, 100), 3, 3, <<1, 0>>),
        Placed(InLevel(3, 3, 0, 100), CANVAS_WIDTH - 30, CANVAS_HEIGHT - 52,
               <<1, 0>>)}

(* The keys may be held from before the level.                             *)
InitArena ==
  Starts({[w EXCEPT !.input.keys = held] :
             w \in ArenaPlaces, held \in SUBSET ArenaKeys})

(* The keys change in the middle of a dash.                                *)
MidDash == entities.player.isDashing

ArenaTick ==
  /\ state.status = "PLAYING"
  /\ engine.frameCount < FirstFrame + ArenaWindow
  /\ \E away \in {0 - 1, 0, 1} : Becomes(updateBody(Began("update"), away))

NextArena ==
  \/ ArenaTick
  \/ \E code \in ArenaKeys : MidDash /\ handleKeyDown(code)
  \/ \E code \in ArenaKeys : MidDash /\ handleKeyUp(code)

SpecArena == InitArena /\ [][NextArena]_vars

---------------------------------------------------------------------------
(* C31: at the end of every tick of a running game the hunter's rectangle  *)
(* is inside the arena: between the side walls in both modes, between the  *)
(* top and the bottom wall on the meadow, and with the feet not below the  *)
(* floor line on a platformer level.                                       *)
C31_HunterInArena ==
  LET b == entities.player IN
  state.status = "PLAYING" /\ obs.act = "update" =>
     /\ 0 <= b.x /\ b.x <= (CANVAS_WIDTH - b.width) * Px
     /\ IF isTopDownLevel(state.level)
        THEN 0 <= b.y /\ b.y <= (CANVAS_HEIGHT - b.height) * Px
        ELSE b.y + b.height * Px <= (CANVAS_HEIGHT - FloorMargin) * Px

(* The hunter of a platformer level, standing on the floor, is pressed     *)
(* against the right wall by a speed that would carry them through it.     *)
C31_Witness ==
  LET b == entities.player IN
  /\ state.status = "PLAYING" /\ obs.act = "update"
  /\ ~isTopDownLevel(state.level)
  /\ b.x = (CANVAS_WIDTH - b.width) * Px /\ b.vx > 0
  /\ b.y + b.height * Px = FloorY * Px /\ b.grounded

---------------------------------------------------------------------------
(* The number of ticks a burst of speed v takes to decay below max, the    *)
(* tick of the burst counted.                                              *)
RECURSIVE DashLength(_, _)
DashLength(v, max) ==
  IF Decay(v) < max THEN 1 ELSE 1 + DashLength(Decay(v), max)

MaxOf(level) ==
  IF isTopDownLevel(level) THEN RPG_MOVEMENT_SPEED ELSE MAX_SPEED * Px

(* One tick of a dash: it starts with the burst, decayed once in the same  *)
(* tick, and on a platformer level with fifteen frames of invulnerability; *)
(* while it lasts the speed is the decayed speed of the tick before,       *)
(* whatever keys are held; and it lasts exactly until the speed is below   *)
(* the maximum of the mode.                                                *)
DashCourse ==
  LET b == entities.player
      a == entities'.player
      topDown == isTopDownLevel(state.level)
      started == ~b.isDashing /\ a.dashTimer = DASH_COOLDOWN_FRAMES
      slow == IF topDown THEN Abs(a.vx) < RPG_MOVEMENT_SPEED
                              /\ Abs(a.vy) < RPG_MOVEMENT_SPEED
              ELSE Abs(a.vx) < MAX_SPEED * Px
  IN obs'.act = "update" =>
       /\ started =>
            /\ Abs(a.vx) \in {0, Decay(DASH_SPEED * Px)}
            /\ topDown => Abs(a.vy) \in {0, Decay(DASH_SPEED * Px)}
            /\ Abs(a.vx) + Abs(a.vy) > 0
            /\ ~topDown => a.invulnerableTimer = DashInvulnFrames
            /\ a.isDashing
       /\ b.isDashing =>
            /\ a.vx = Decay(b.vx)
            /\ topDown => a.vy = Decay(b.vy)
            /\ a.dashTimer = b.dashTimer - 1
            /\ a.isDashing = ~slow
       /\ a.isDashing => b.isDashing \/ started

(* C32: every dash terminates.  It starts with a burst of 15, decays by    *)
(* the factor 0.85 in every tick whatever the directional input, and ends  *)
(* in the first tick in which the speed is below the maximum of the mode,  *)
(* which comes within a fixed number of ticks of its start; the dash of a  *)
(* platformer level gives fifteen ticks of invulnerability.                *)
C32_DashTerminates ==
  /\ [][DashCourse]_vars
  /\ [](entities.player.isDashing =>
          DASH_COOLDOWN_FRAMES - entities.player.dashTimer + 1
             < DashLength(DASH_SPEED * Px, MaxOf(state.level)))

(* A dash on the meadow has just ended, at its full length, with the key   *)
(* against its direction held.                                             *)
C32_Witness ==
  LET b == entities.player IN
  /\ obs.act = "update" /\ isTopDownLevel(state.level)
  /\ ~b.isDashing /\ b.vx > 0 /\ b.vx < RPG_MOVEMENT_SPEED
  /\ b.dashTimer = DASH_COOLDOWN_FRAMES
                     - DashLength(DASH_SPEED * Px, RPG_MOVEMENT_SPEED) + 1
  /\ "KeyA" \in input.keys /\ "KeyD" \notin input.keys

---------------------------------------------------------------------------
(* Crowded levels: the creatures and the crows that came in at the spawn   *)
(* frames so far wait at the sides where they came in, none of them        *)
(* killed; the next spawn frame of both kinds is one tick ahead.  On       *)
(* level 2 the quota is met as well and the hunter stands in the door, so  *)
(* that level 3 starts while the creatures of level 2 are alive.           *)

CapsWindow == 3

RECURSIVE Crowded(_, _, _)
Crowded(w, n, m) ==
  IF n > 0
  THEN Crowded([w EXCEPT !.entities.enemies =
                   Append(@, [NewEnemy(w, "SMALL", 0 - 50) EXCEPT
                                !.y = FloorY - 24])], n - 1, m)
  ELSE IF m > 0
  THEN Crowded([w EXCEPT !.entities.crows =
                   Append(@, NewCrow(w, CANVAS_WIDTH + 50, 2))], n, m - 1)
  ELSE w

CapsFrame == 4 * CrowSpawnFrames - 1

InitCaps ==
  Starts({AtFrame(Crowded(InLevel(1, 3, 0, 100), n, m), CapsFrame) :
             n \in {EnemyCap - 1, EnemyCap}, m \in {CrowCap - 1, CrowCap}}
         \cup {AtFrame(Crowded(InLevel(2, 3, 7, 100), EnemyCap, CrowCap),
                       CapsFrame),
               AtFrame(Crowded(InLevel(2, 3, 8, 100), EnemyCap, CrowCap),
                       CapsFrame)})

(* Everything waits where it is.                                           *)
Waiting(c) ==
  /\ c.emove = {} /\ c.cmove = {} /\ c.amove = {} /\ c.tmove = {}
  /\ ~c.meat /\ ~c.pup /\ ~c.dgo /\ c.rmove = {}

NextCaps ==
  \/ Update(CapsFrame + CapsWindow, Waiting)
  \/ \E k \in Keys : handleKeyDown(k)
  \/ \E k \in Keys : handleKeyUp(k)
  \/ Timeout

SpecCaps == InitCaps /\ [][NextCaps]_vars

Ids(list) == {list[i].id : i \in 1..Len(list)}

(* A list gets a new member only in a tick of update that found fewer than *)
(* cap members in it.                                                      *)
SpawnsBelow(before, after, cap) ==
  Ids(after) \ Ids(before) # {} => obs'.act = "update" /\ Len(before) < cap

(* C33: there are never more than 5 hostile creatures and never more than  *)
(* 3 crows; one is spawned only in a tick in which the count of its kind   *)
(* is below the cap; and on level 3 there is never a hostile creature or a *)
(* crow.                                                                   *)
C33_Caps ==
  /\ [](/\ Len(entities.enemies) <= EnemyCap
        /\ Len(entities.crows) <= CrowCap
        /\ state.level = 3 => entities.enemies = <<>> /\ entities.crows = <<>>)
  /\ [][/\ SpawnsBelow(entities.enemies, entities'.enemies, EnemyCap)
        /\ SpawnsBelow(entities.crows, entities'.crows, CrowCap)]_vars

(* A spawn frame of both kinds has passed with both lists full.            *)
C33_Witness ==
  /\ state.status = "PLAYING" /\ obs.act = "update"
  /\ engine.frameCount % SpawnPeriod(state.level) = 0
  /\ engine.frameCount % CrowSpawnFrames = 0
  /\ Len(entities.enemies) = EnemyCap /\ Len(entities.crows) = CrowCap

---------------------------------------------------------------------------
(* A death and the half second after it: the hunter, one blow from death,  *)
(* stands at the start of level 1; the wolf that comes in from the left    *)
(* runs at the hunter and stays on them; the dash key may be pressed and   *)
(* released at any time, and the respawn may come at any time.             *)

DeathWindow == 22
DeathKeys == {"ShiftLeft"}

Hounded(c) ==
  /\ c.side = 0 - 50 /\ c.tier = "SMALL" /\ ~c.meat /\ ~c.pup
  /\ c.cmove = {} /\ c.crowVx = 2
  /\ \A i \in 1..Len(entities.enemies) : i \in c.emove
  /\ c.pto # Null => c.pto = Station(50, PlayerGroundY)

InitDeath ==
  Starts({InLevel(1, 3, 0, 10), InLevel(1, 2, 0, 10), InLevel(1, 3, 0, 20)})

NextDeath ==
  \/ Update(FirstFrame + DeathWindow, Hounded)
  \/ \E k \in DeathKeys : handleKeyDown(k)
  \/ \E k \in DeathKeys : handleKeyUp(k)
  \/ Timeout

SpecDeath == InitDeath /\ [][NextDeath]_vars

(* A restart of this game is scheduled and has not happened.               *)
RestartPending ==
  \E i \in 1..Len(timers) : timers[i].kind = "respawn" /\ ~timers[i].stale

(* C34: each death costs exactly one life and one restart: from a death    *)
(* with lives remaining until the scheduled restart has happened no        *)
(* further life is taken and no second restart is scheduled, whatever the  *)
(* hunter does in the meantime.                                            *)
C34_OneLifePerDeath ==
  [][obs'.deaths > 0 => obs'.deaths = 1 /\ ~RestartPending]_vars

---------------------------------------------------------------------------
(* A whole game lost in a hurry: the hunter of level 1, the quota met,     *)
(* walks through the gate; a touch during the transition starts a new game *)
(* while the transition is still pending; in the new game the hunter       *)
(* stands still and the wolves, which all come in from the left and stay   *)
(* on the hunter, bite whenever the invulnerability has run out.  The      *)
(* pending callbacks of the game before come due when the new game is      *)
(* over or in transition, the respawns at any time.                        *)

LivesWindow == 670

Doomed(c) ==
  /\ c.side = 0 - 50 /\ c.tier = "SMALL" /\ ~c.meat /\ ~c.pup
  /\ c.cmove = {} /\ c.crowVx = 2 /\ ~c.lightning
  /\ \A i \in 1..Len(entities.enemies) : i \in c.emove
  /\ c.pto # Null => c.pto = Station(CANVAS_WIDTH - 80, PlayerGroundY)

InitLives == Starts({InLevel(1, 3, 4, 100)})

(* A frame of this game; the two respawns of its first two deaths may be   *)
(* pending next to the transition of the game before.                      *)
LivesTick ==
  /\ engine.frameCount < FirstFrame + LivesWindow
  /\ \E c \in Choices(World) :
        /\ Doomed(c)
        /\ Len(update(Began("update"), c).timers) <= StartLives
        /\ Becomes(update(Began("update"), c))

NextLives ==
  \/ LivesTick
  \/ (engine.frameCount = FirstFrame /\ handleKeyDown("KeyD"))
  \/ (state.status = "LEVEL_TRANSITION" /\ handleKeyUp("KeyD"))
  \/ (state.status = "LEVEL_TRANSITION" /\ "KeyD" \notin input.keys
      /\ handleTouchStart("whistle"))
  \/ (Timeout /\ (obs'.stale => state.status # "PLAYING"))

SpecLives == InitLives /\ [][NextLives]_vars

(* C35: the lives are always between 0 and 3; the game is over only with   *)
(* no life left, and is running only with a life left.                     *)
C35_Lives ==
  /\ 0 <= state.lives /\ state.lives <= StartLives
  /\ state.status = "GAME_OVER" => state.lives = 0
  /\ state.status = "PLAYING" => state.lives > 0

---------------------------------------------------------------------------
(* A tick of a running game that leaves the hunter of the level run in     *)
(* place (no level start).                                                 *)
SameRun ==
  /\ obs'.act = "update" /\ state.status = "PLAYING"
  /\ entities.player # Null /\ entities'.player # Null
  /\ obs'.startLevels = 0

(* C36: the hunter takes damage only when invulnerableTimer (counted down  *)
(* in the tick) is 0; the hit sets it to 60, and from then on it goes down *)
(* by no more than one per tick, so that two hits of one level run are     *)
(* never fewer than 60 ticks apart.                                        *)
C36_InvulnerabilityLasts ==
  [][SameRun =>
       LET p == entities.player
           q == entities'.player
       IN /\ q.health < p.health =>
               p.invulnerableTimer <= 1 /\ q.invulnerableTimer = HitInvulnFrames
          /\ p.invulnerableTimer > 0 =>
               q.invulnerableTimer >= p.invulnerableTimer - 1]_vars

---------------------------------------------------------------------------
(* A rabbit goes to ground: the hunter walks into the first bush and       *)
(* flushes its rabbit while the companion dawdles; ten ticks later the     *)
(* rabbit has reached the second bush, either the spot where a rabbit of   *)
(* that bush sits or the corner of the bush, and hides there.              *)

BurrowWindow == 16

Burrows(c) ==
  /\ ~c.dgo
  /\ c.pto \in {Null, Station(BushSpot(1).x + 10, BushSpot(1).y + 10)}
  /\ c.rmove = {i \in Fleeing : entities.rabbits[i].fleeTimer % 10 = 1}
  /\ c.rto \in {Null, Station(BushSpot(2).x + 10, BushSpot(2).y + 10),
                Station(BushSpot(2).x - 10, BushSpot(2).y - 10)}

InitBurrow == Starts({InLevel(3, 3, 0, 100)})

NextBurrow ==
  \/ Update(FirstFrame + BurrowWindow, Burrows)
  \/ \E k \in HideKeys : handleKeyDown(k)
  \/ \E k \in HideKeys : handleKeyUp(k)

SpecBurrow == InitBurrow /\ [][NextBurrow]_vars

(* The rabbit r is disturbed in this tick: the hunter, or the companion    *)
(* when it flushes, is within 30 of it.                                    *)
Disturbed(r) ==
  LET p == entities'.player
      d == entities'.dog
  IN \/ DistLT(p.x, p.y, r.x, r.y, 30)
     \/ (d.state = "FLUSH" /\ DistLT(d.x, d.y, r.x, r.y, 30))

(* C37: on level 3 a hidden rabbit stays hidden until it is disturbed, and *)
(* no rabbit is ever in a state (IDLE) in which it can be neither flushed  *)
(* nor chased nor caught.                                                  *)
C37_RabbitsStayInPlay ==
  /\ [](\A i \in 1..Len(entities.rabbits) :
           entities.rabbits[i].state \in {"HIDDEN", "FLEE"})
  /\ [][SameRun =>
          \A i \in 1..Len(entities.rabbits) :
             entities.rabbits[i].state = "HIDDEN" =>
                \/ entities'.rabbits[i].state = "HIDDEN"
                \/ /\ entities'.rabbits[i].state = "FLEE"
                   /\ Disturbed(entities.rabbits[i])]_vars

---------------------------------------------------------------------------
(* C38: at the end of a tick isAiming is true only if the right stick was  *)
(* active in that tick; once the stick is released, isAiming is false from *)
(* the next tick on.                                                       *)
C38_AimingOnlyWithStick ==
  state.status = "PLAYING" /\ obs.act = "update" /\ entities.player # Null
     => (entities.player.isAiming => input.touch.rightStick.active)

---------------------------------------------------------------------------
(* C39: a flash of lightning is shown only where it rains: whenever        *)
(* lightningTimer > 0, isRaining holds, also after a transition or a       *)
(* restart into a level without rain.                                      *)
C39_FlashOnlyInRain == state.lightningTimer > 0 => state.isRaining

---------------------------------------------------------------------------
(* The hunt of level 3 to the tenth of a pixel, on one line.  When the *)
(* hunter, the companion and the rabbit in sight stand on one vertical     *)
(* line, every direction (dx/dist, dy/dist) of updateDog and of            *)
(* updateBushesAndRabbits is (0, 1) or (0, -1), and the speeds 3.5 and 4.2 *)
(* are whole numbers of tenths.  Positions and speeds of this part are in  *)
(* tenths of a pixel.                                                      *)

Tn == 10
ChaseSpeed == 42
CarrySpeed == 35

Scaled(e) == [e EXCEPT !.x = @ * Tn, !.y = @ * Tn]

(* Math.sqrt(dx*dx + dy*dy) compared with r pixels.                        *)
Nearer(a, b, r) == DistSq(a.x, a.y, b.x, b.y) < Sq(r * Tn)
Farther(a, b, r) == DistSq(a.x, a.y, b.x, b.y) > Sq(r * Tn)

(* Lines 797-799.                                                          *)
DogAdvance(d) ==
  [d EXCEPT !.x = @ + d.vx, !.y = @ + d.vy, !.facingRight = d.vx > 0]

(* Lines 684-705: the catch is carried to the hunter straight below or     *)
(* above, and dropped within 40; the function returns before the clamps.   *)
CarryOnLine(w) ==
  LET d == w.entities.dog
      p == w.entities.player
  IN IF Farther(p, d, 40)
     THEN [w EXCEPT !.entities.dog =
             DogAdvance([d EXCEPT !.vx = 0,
                                  !.vy = Sign(p.y - d.y) * CarrySpeed])]
     ELSE [w EXCEPT !.entities.dog =
                       DogAdvance([d EXCEPT !.state = "IDLE", !.target = Null]),
                    !.entities.meats = Append(@, NewMeat(w, d.x, d.y, 50)),
                    !.state.enemiesKilled = @ + 1,
                    !.obs.delivered = @ + 1]

(* Lines 721-739: the chase of the rabbit straight above or below.         *)
ChaseOnLine(w) ==
  LET d == w.entities.dog
      rabbit == Deref(w, d.target)
      i == IndexOfId(w.entities.rabbits, d.target.id)
  IN IF rabbit.state = "HIDDEN" \/ rabbit.markedForDeletion
     THEN [w EXCEPT !.entities.dog.state = "IDLE", !.entities.dog.target = Null]
     ELSE IF Nearer(rabbit, d, 20)
     THEN [w EXCEPT !.entities.dog.state = "CARRY",
                    !.entities.rabbits[i].markedForDeletion = TRUE,
                    !.obs.caught = Append(@, rabbit.id)]
     ELSE [w EXCEPT !.entities.dog.vx = 0,
                    !.entities.dog.vy = Sign(rabbit.y - d.y) * ChaseSpeed]

(* Lines 762-796 where no bush within 400 shelters a rabbit and the        *)
(* hunter's side is within 60: the companion stops.                        *)
RestOnLine(w) ==
  [w EXCEPT !.entities.dog.vx = 0, !.entities.dog.vy = 0]

(* Lines 884-885.                                                          *)
DogWalls(d) ==
  [d EXCEPT !.x = Bound(@, 0, (CANVAS_WIDTH - d.width) * Tn)]

(* updateDog on level 3 (lines 683-799 and 884-885), no whistle blown.     *)
updateDogOnLine(w) ==
  IF w.entities.dog.state = "CARRY" THEN CarryOnLine(w)
  ELSE LET w1 == DogSight(w)
           w2 == IF w1.entities.dog.state = "CHASE" /\ w1.entities.dog.target # Null
                 THEN ChaseOnLine(w1) ELSE RestOnLine(w1)
       IN [w2 EXCEPT !.entities.dog = DogWalls(DogAdvance(@))]

(* Lines 606-619 for a rabbit that nothing disturbs, and lines 620-653 for *)
(* a rabbit that flees along the line: run = (0, runY).                    *)
RabbitOnLine(w, i) ==
  LET r == w.entities.rabbits[i]
      d == w.entities.dog
      p == w.entities.player
      runY == (r.y - d.y) * 15 + (r.y - p.y) * 8
      r1 == [r EXCEPT !.fleeTimer = @ - 1, !.vx = 0,
                      !.vy = Sign(runY) * CarrySpeed,
                      !.y = @ + Sign(runY) * CarrySpeed]
      b == FindFirst(w.entities.bushes,
                     LAMBDA k : Abs(k.x - r1.x) < 20 * Tn /\ Abs(k.y - r1.y) < 20 * Tn)
      hides == r1.fleeTimer % 10 = 0 /\ b # 0
      r2 == IF hides THEN [r1 EXCEPT !.state = "HIDDEN", !.isHidden = TRUE,
                                     !.vx = 0, !.vy = 0]
            ELSE r1
      r3 == [r2 EXCEPT !.vy = IF r2.y < 0 \/ r2.y > CANVAS_HEIGHT * Tn
                              THEN 0 - @ ELSE @]
  IN IF r.state # "FLEE" THEN w
     ELSE [w EXCEPT !.entities.rabbits[i] = r3,
                    !.entities.dog =
                       IF hides /\ d.target = Ref("rabbit", r.id)
                       THEN [d EXCEPT !.state = "IDLE", !.target = Null] ELSE @]

RECURSIVE RabbitsOnLine(_, _)
RabbitsOnLine(w, i) ==
  IF i > Len(w.entities.rabbits) THEN w
  ELSE RabbitsOnLine(RabbitOnLine(w, i), i + 1)

(* The companion's and the rabbits' part of one frame of update on level   *)
(* 3 (lines 509-510); the hunter stands and nothing else is alive.         *)
updateOnLine(w) ==
  RabbitsOnLine(updateDogOnLine([w EXCEPT !.engine.frameCount = @ + 1]), 1)

(* The states in which the frame is as described: what the companion runs  *)
(* at is straight above or below it and not at the same place, a fleeing   *)
(* rabbit has the companion and the hunter straight above or below and     *)
(* does not stand still, and every hidden rabbit is out of everyone's      *)
(* reach.                                                                  *)
IsOnLine(w) ==
  LET d == w.entities.dog
      p == w.entities.player
      rs == w.entities.rabbits
      bs == w.entities.bushes
  IN /\ w.state.status = "PLAYING" /\ w.state.level = 3 /\ w.input.keys = {}
     /\ d.x = p.x /\ d.y # p.y
     /\ \A i \in 1..Len(rs) :
          IF rs[i].state = "FLEE"
          THEN /\ rs[i].x = d.x /\ rs[i].y # d.y
               /\ (rs[i].y - d.y) * 15 + (rs[i].y - p.y) * 8 # 0
          ELSE /\ rs[i].state = "HIDDEN"
               /\ ~Nearer(p, rs[i], 30)
               /\ \A k \in 1..Len(bs) :
                     Abs(rs[i].x - bs[k].x) < 20 * Tn => ~Nearer(bs[k], d, 400)
     /\ ~Farther([x |-> p.x - 30 * Tn, y |-> p.y], d, 60) \/ d.state = "CARRY"
           \/ \E i \in 1..Len(rs) : rs[i].state = "FLEE"

ChaseWindow == 130

(* The hunter has walked up to the first bush from below and flushed its   *)
(* rabbit; the companion rests a little further below; the second bush is  *)
(* far off.                                                                *)
Flushed(dy) ==
  LET w == InLevel(3, 3, 0, 100) IN
  [w EXCEPT
     !.entities.player = [Scaled(@) EXCEPT !.x = 250 * Tn, !.y = 130 * Tn],
     !.entities.dog = [Scaled(@) EXCEPT !.x = 250 * Tn, !.y = dy * Tn],
     !.entities.bushes =
        <<[Scaled(@[1]) EXCEPT !.x = 240 * Tn, !.y = 100 * Tn, !.shakeTimer = 19],
          [Scaled(@[2]) EXCEPT !.x = 800 * Tn, !.y = 400 * Tn]>>,
     !.entities.rabbits =
        <<[Scaled(@[1]) EXCEPT !.x = 250 * Tn, !.y = 110 * Tn, !.state = "FLEE",
                               !.isHidden = FALSE, !.fleeTimer = FleeFrames],
          [Scaled(@[2]) EXCEPT !.x = 810 * Tn, !.y = 410 * Tn]>>]

InitChase == Starts({Flushed(dy) : dy \in {150, 160, 170, 180}})

ChaseTick ==
  /\ engine.frameCount < FirstFrame + ChaseWindow
  /\ IsOnLine(World)
  /\ Becomes(updateOnLine(Began("update")))

NextChase == ChaseTick

SpecChase == InitChase /\ [][NextChase]_vars

(* Nothing for the companion to smell, to chase or to follow: no bush      *)
(* within 400 shelters a rabbit, no rabbit that is not caught flees in     *)
(* sight, and the hunter's side is within 60.                              *)
NothingToDo ==
  LET d == entities.dog
      p == entities.player
      rs == entities.rabbits
      bs == entities.bushes
  IN /\ \A i \in 1..Len(rs) :
          IF rs[i].state = "HIDDEN"
          THEN \A k \in 1..Len(bs) :
                  Abs(rs[i].x - bs[k].x) < 20 * Tn => ~Nearer(bs[k], d, 400)
          ELSE rs[i].markedForDeletion \/ rs[i].isHidden
     /\ ~Farther([x |-> p.x - 30 * Tn, y |-> p.y], d, 60)

(* C40: at the end of every tick of a running game the companion is inside *)
(* the arena on both axes, and its velocity is zero whenever it is IDLE    *)
(* with nothing to smell, chase or follow.                                 *)
C40_CompanionInArena ==
  LET d == entities.dog IN
  state.status = "PLAYING" /\ obs.act = "update" /\ d # Null =>
     /\ 0 <= d.x /\ d.x <= (CANVAS_WIDTH - d.width) * Tn
     /\ 0 <= d.y /\ d.y <= (CANVAS_HEIGHT - d.height) * Tn
     /\ d.state = "IDLE" /\ NothingToDo => d.vx = 0 /\ d.vy = 0

====
